---------------------------- MODULE Spec2Model ----------------------------
(***************************************************************************)
(* Model of the spice dashboard (src/src/source_code.py).                  *)
(*                                                                         *)
(* The module-level script builds the data frame `data` statement by       *)
(* statement (read_csv, code cleaning, Sudan fix, merge, continent         *)
(* classification, filter, column selection, groupby/agg, derived          *)
(* columns).  Afterwards the five Dash callbacks read `data`.              *)
(*                                                                         *)
(* A data frame is a sequence of records (one record per row, one field    *)
(* per column).  Column names that are not TLA+ identifiers are spelled    *)
(* without blanks: "Area Code (M49)" is M49, "Numeric code" NumericCode,   *)
(* "Alpha-3 code" Alpha3, "ISO-3" ISO3, "Net Trade" NetTrade,              *)
(* "Self-Sufficiency Ratio" SelfSufficiencyRatio.  The raw column          *)
(* "Export " (trailing blank) is ExportRaw until the rename.               *)
(***************************************************************************)
EXTENDS Integers, Sequences, FiniteSets, TLC

VARIABLES
    data,       \* the module-level data frame `data`
    ref_table,  \* the module-level data frame `ref_table`
    cc,         \* coco.CountryConverter: UN numeric code -> continent name
    raw,        \* the content of data/data_raw.csv as read (never written)
    pc,         \* the statement of the script that runs next, then "serve"
    out,        \* what the running callback invocation returns, until sent
    calls       \* per server thread: the callback it runs and its local frame

vars == <<data, ref_table, cc, raw, pc, out, calls>>

(***************************************************************************)
(* Bounds of the model.                                                    *)
(***************************************************************************)
\* rows of data_raw.csv in the pipeline specification SpecBuild
MaxRaw == 2
\* Asian areas that report in the year 2000 in the dashboard specification
\* Spec (Sudan reports as well)
NumAreas == 5
\* requests the server handles at the same time in the threaded
\* specification SpecConc
NumThreads == 2

(***************************************************************************)
(* Missing values and floating point values.                               *)
(***************************************************************************)
\* pd.NA / NaN in a key or string column
NA == "<NA>"

\* float64 values: a rational n/d with d > 0, +inf, -inf or NaN
NaN == [k |-> "nan", n |-> 0, d |-> 1]
PosInf == [k |-> "inf", n |-> 1, d |-> 1]
NegInf == [k |-> "ninf", n |-> -1, d |-> 1]

Abs(x) == IF x < 0 THEN -x ELSE x

RECURSIVE Gcd(_, _)
Gcd(a, b) == IF b = 0 THEN a ELSE Gcd(b, a % b)

\* the float n/d, d # 0, in lowest terms with a positive denominator
Fin(n, d) ==
    LET g == Gcd(Abs(n), Abs(d))
        s == IF d < 0 THEN -1 ELSE 1
    IN  [k |-> "fin", n |-> s * (n \div g), d |-> s * (d \div g)]

FromInt(i) == [k |-> "fin", n |-> i, d |-> 1]

IsNaN(x) == x.k = "nan"

\* x < y on floats; every comparison with NaN is false
FLt(x, y) ==
    CASE IsNaN(x) \/ IsNaN(y) -> FALSE
      [] x.k = "ninf" -> y.k # "ninf"
      [] x.k = "inf" -> FALSE
      [] y.k = "inf" -> TRUE
      [] y.k = "ninf" -> FALSE
      [] OTHER -> x.n * y.d < y.n * x.d

\* x == y on floats (NaN differs from everything, itself included)
FEq(x, y) == ~IsNaN(x) /\ ~IsNaN(y) /\ x = y

\* x + y on floats
FAdd(x, y) ==
    CASE IsNaN(x) \/ IsNaN(y) -> NaN
      [] x.k = "inf" -> IF y.k = "ninf" THEN NaN ELSE PosInf
      [] x.k = "ninf" -> IF y.k = "inf" THEN NaN ELSE NegInf
      [] y.k = "inf" -> PosInf
      [] y.k = "ninf" -> NegInf
      [] OTHER -> Fin(x.n * y.d + y.n * x.d, x.d * y.d)

\* integer column / integer column, as pandas and numpy divide: x/0 is
\* +-inf, 0/0 is NaN, and nothing is raised
TrueDiv(a, b) ==
    IF b # 0 THEN Fin(a, b)
    ELSE IF a > 0 THEN PosInf
    ELSE IF a < 0 THEN NegInf
    ELSE NaN

\* float / positive integer count (the mean of a group)
FDivInt(x, c) == IF x.k = "fin" THEN Fin(x.n, x.d * c) ELSE x

(***************************************************************************)
(* Strings.  A raw code is a sequence of characters, so that the cleaning  *)
(* (strip quotes, strip blanks, parse) is computed; names are compared     *)
(* through the lexicographic order of the strings the inputs use.          *)
(***************************************************************************)
Digits == <<"0", "1", "2", "3", "4", "5", "6", "7", "8", "9">>

IsDigit(c) == \E i \in 1..Len(Digits) : Digits[i] = c

DigitVal(c) == (CHOOSE i \in 1..Len(Digits) : Digits[i] = c) - 1

\* .str.replace('"', "", regex=False)
RemoveQuotes(s) == SelectSeq(s, LAMBDA c : c # "\"")

RECURSIVE LStrip(_)
LStrip(s) == IF s # <<>> /\ Head(s) = " " THEN LStrip(Tail(s)) ELSE s

RECURSIVE RStrip(_)
RStrip(s) ==
    IF s # <<>> /\ s[Len(s)] = " " THEN RStrip(SubSeq(s, 1, Len(s) - 1)) ELSE s

\* .str.strip()
Strip(s) == RStrip(LStrip(s))

RECURSIVE DigitsToInt(_, _)
DigitsToInt(s, acc) ==
    IF s = <<>> THEN acc ELSE DigitsToInt(Tail(s), 10 * acc + DigitVal(Head(s)))

\* whether .astype("Int64") accepts the string: a decimal literal; on any
\* other string the whole astype call raises ValueError
IsIntLiteral(s) == s # <<>> /\ \A i \in 1..Len(s) : IsDigit(s[i])

\* .astype("Int64") of one accepted string
ToInt64(s) == DigitsToInt(s, 0)

\* the chain .astype(str).str.replace('"', "", regex=False).str.strip()
CleanStr(s) == Strip(RemoveQuotes(s))

\* the chain .astype(str).str.replace('"', "").str.strip() on "Alpha-3 code";
\* an alpha-3 cell is a sequence of tokens: quotes, blanks and the code
CleanAlpha3(s) == LET t == CleanStr(s) IN IF t = <<>> THEN "" ELSE t[1]

\* lexicographic order (Python's str <) of the names the inputs use
NameOrder ==
    <<"<NA>", "AFG", "AFX", "Africa", "America", "Asia", "Atlantis", "BRA", "Brazil",
      "CHN", "China", "Europe", "GBR", "IDN", "IND", "India", "Indonesia",
      "NPL", "Nepal", "Oceania", "SDN", "Sudan", "THA", "Thailand",
      "UK and Northern Ireland",
      "United Kingdom of Great Britain and Northern Ireland",
      "VNM", "Viet Nam", "not found">>

NamePos(s) == CHOOSE i \in 1..Len(NameOrder) : NameOrder[i] = s

StrLt(a, b) == NamePos(a) < NamePos(b)

(***************************************************************************)
(* Sequence helpers.                                                       *)
(***************************************************************************)
RECURSIVE SumSeq(_)
SumSeq(s) == IF s = <<>> THEN 0 ELSE Head(s) + SumSeq(Tail(s))

RECURSIVE Concat(_)
Concat(ss) == IF ss = <<>> THEN <<>> ELSE Head(ss) \o Concat(Tail(ss))

Range(s) == {s[i] : i \in 1..Len(s)}

(***************************************************************************)
(* Inputs: the two CSV files and the country converter.                    *)
(***************************************************************************)
\* the five continent names of the dashboard (scope picker, description2)
Continents == {"Africa", "America", "Asia", "Europe", "Oceania"}

\* what cc.convert(..., to="continent") returns for one code
ClassifierOutputs == Continents \cup {"not found"}

\* the numeric codes the inputs use
Codes == {76, 156, 356, 360, 524, 704, 729, 736, 764, 826, 999}

\* data/country_code_conversion.csv as read: numeric codes and alpha-3
\* codes, some quoted or padded as in the file
RefRows ==
    << [NumericCode |-> <<"\"", "0", "7", "6", "\"">>, Alpha3 |-> <<"\"", "BRA", "\"">>],
       [NumericCode |-> <<"1", "5", "6">>, Alpha3 |-> <<"CHN">>],
       [NumericCode |-> <<" ", "3", "5", "6">>, Alpha3 |-> <<" ", "IND">>],
       [NumericCode |-> <<"3", "6", "0">>, Alpha3 |-> <<"IDN">>],
       [NumericCode |-> <<"\"", "5", "2", "4", "\"">>, Alpha3 |-> <<" ", "\"", "NPL", "\"">>],
       [NumericCode |-> <<"7", "0", "4">>, Alpha3 |-> <<"VNM">>],
       [NumericCode |-> <<"7", "3", "6">>, Alpha3 |-> <<"SDN">>],
       [NumericCode |-> <<"7", "6", "4">>, Alpha3 |-> <<"THA">>],
       [NumericCode |-> <<"8", "2", "6">>, Alpha3 |-> <<"GBR">>] >>

\* a reference file that lists the code 524 twice, with two alpha-3 codes
RefRowsDup ==
    RefRows \o << [NumericCode |-> <<"5", "2", "4">>, Alpha3 |-> <<"AFX">>] >>

RefTables == {RefRows, RefRowsDup}

\* a country converter that knows the continent of every listed code but 999
BaseConverter ==
    [c \in Codes |->
        CASE c = 76 -> "America"
          [] c \in {156, 356, 360, 524, 704, 764} -> "Asia"
          [] c \in {729, 736} -> "Africa"
          [] c = 826 -> "Europe"
          [] OTHER -> "not found"]

\* the converters of the pipeline specification: the base one, the base one
\* with a continent for the unlisted code, and every constant one
Converters ==
    {BaseConverter, [BaseConverter EXCEPT ![999] = "Oceania"]}
        \cup {[c \in Codes |-> o] : o \in ClassifierOutputs}

RawRow(area, code, year, imp, exp, prod, cons) ==
    [Area |-> area, M49 |-> code, Year |-> year, Import |-> imp,
     ExportRaw |-> exp, Production |-> prod, Consumption |-> cons, Unit |-> "t"]

\* the metric values of a raw row of the pipeline specification
Profiles ==
    << [Import |-> 10, Export |-> 2, Production |-> 3, Consumption |-> 0],
       [Import |-> 5, Export |-> 7, Production |-> 0, Consumption |-> 2],
       [Import |-> 0, Export |-> 0, Production |-> 0, Consumption |-> 0] >>

\* the (Area, raw code, Year) of a raw row of the pipeline specification
BuildSlots ==
    << <<"Sudan", <<"7", "2", "9">>, 2000>>,
       <<"Sudan", <<"7", "2", "9">>, 2001>>,
       <<"Nepal", <<"\"", "5", "2", "4", "\"">>, 2000>>,
       <<"Nepal", <<"\"", "5", "2", "4", "\"">>, 2001>>,
       <<"United Kingdom of Great Britain and Northern Ireland",
         <<"8", "2", "6", " ">>, 2000>>,
       <<"Atlantis", <<"9", "9", "9">>, 2000>>,
       <<"Sudan", <<" ", "9", "9", "9">>, 2000>>,
       <<"Atlantis", <<"\"", "n", "/", "a", "\"">>, 2000>> >>

BuildRows ==
    [i \in 1..(Len(BuildSlots) * Len(Profiles)) |->
        LET s == BuildSlots[((i - 1) \div Len(Profiles)) + 1]
            p == Profiles[((i - 1) % Len(Profiles)) + 1]
        IN  RawRow(s[1], s[2], s[3], p.Import, p.Export, p.Production,
                   p.Consumption)]

\* the raw files of the pipeline specification: at most MaxRaw rows, listed
\* in the order of BuildRows
RawFiles ==
    UNION {{[i \in 1..n |-> BuildRows[ix[i]]] :
               ix \in {f \in [1..n -> 1..Len(BuildRows)] :
                          \A i \in 1..(n - 1) : f[i] <= f[i + 1]}} :
           n \in 0..MaxRaw}

(***************************************************************************)
(* The statements of the script, each as an operator on data frames.       *)
(***************************************************************************)
\* l.22-28 and l.29-35: whether the astype("Int64") of a column succeeds
ColumnIsInt(col) == \A i \in 1..Len(col) : IsIntLiteral(CleanStr(col[i]))

\* l.22-28: data["Area Code (M49)"] cleaned and cast
CleanData(d) ==
    [i \in 1..Len(d) |-> [d[i] EXCEPT !.M49 = ToInt64(CleanStr(d[i].M49))]]

\* l.29-38: ref_table["Numeric code"] cleaned and cast, "Alpha-3 code" cleaned
CleanRef(r) ==
    [i \in 1..Len(r) |->
        [NumericCode |-> ToInt64(CleanStr(r[i].NumericCode)),
         Alpha3 |-> CleanAlpha3(r[i].Alpha3)]]

\* the script without the statement l.42
FixSudanCodeSkipped(d) == d

\* l.42: data.loc[data["Area"] == "Sudan", "Area Code (M49)"] = 736
FixSudanCode(d) ==
    [i \in 1..Len(d) |->
        IF d[i].Area = "Sudan" THEN [d[i] EXCEPT !.M49 = 736] ELSE d[i]]

\* l.45-47: data["Area"].replace(long name, short name)
ShortenArea(d) ==
    [i \in 1..Len(d) |->
        IF d[i].Area = "United Kingdom of Great Britain and Northern Ireland"
        THEN [d[i] EXCEPT !.Area = "UK and Northern Ireland"]
        ELSE d[i]]

\* one left row joined with the reference rows of its code, in reference
\* order; a row without a match is kept once, with missing right columns
JoinRow(row, r) ==
    LET hits == SelectSeq(r, LAMBDA e : e.NumericCode = row.M49)
        With(code, a3) ==
            [Area |-> row.Area, M49 |-> row.M49, Year |-> row.Year,
             Import |-> row.Import, ExportRaw |-> row.ExportRaw,
             Production |-> row.Production, Consumption |-> row.Consumption,
             Unit |-> row.Unit, NumericCode |-> code, Alpha3 |-> a3]
    IN  IF hits = <<>>
        THEN << With(NA, NA) >>
        ELSE [j \in 1..Len(hits) |-> With(hits[j].NumericCode, hits[j].Alpha3)]

\* the merge with how="inner": a row without a match is dropped
MergeInner(d, r) ==
    Concat([i \in 1..Len(d) |->
               IF \E j \in 1..Len(r) : r[j].NumericCode = d[i].M49
               THEN JoinRow(d[i], r) ELSE <<>>])

\* l.51-53: data.merge(ref_table, how="left", left_on=..., right_on=...)
Merge(d, r) == Concat([i \in 1..Len(d) |-> JoinRow(d[i], r)])

WithContinent(row, c) ==
    [Area |-> row.Area, M49 |-> row.M49, Year |-> row.Year,
     Import |-> row.Import, ExportRaw |-> row.ExportRaw,
     Production |-> row.Production, Consumption |-> row.Consumption,
     Unit |-> row.Unit, NumericCode |-> row.NumericCode,
     Alpha3 |-> row.Alpha3, Continent |-> c]

\* ConvertContinent without the replace of "not found" by pd.NA
ConvertContinentKeepNotFound(d, conv) ==
    [i \in 1..Len(d) |-> WithContinent(d[i], conv[d[i].M49])]

\* l.58-61: cc.convert(names=data["Area Code (M49)"], to="continent",
\* src="UNnumeric"), then "not found" replaced by pd.NA
ConvertContinent(d, conv) ==
    [i \in 1..Len(d) |->
        LET c == conv[d[i].M49]
        IN  WithContinent(d[i], IF c = "not found" THEN NA ELSE c)]

\* l.64: data[data["Continent"].notna()]
FilterContinent(d) == SelectSeq(d, LAMBDA row : row.Continent # NA)

\* l.66-81: the relevant columns, "Export " renamed Export and
\* "Alpha-3 code" renamed ISO-3
SelectRename(d) ==
    [i \in 1..Len(d) |->
        [Area |-> d[i].Area, Continent |-> d[i].Continent,
         ISO3 |-> d[i].Alpha3, Year |-> d[i].Year, Import |-> d[i].Import,
         Export |-> d[i].ExportRaw, Production |-> d[i].Production,
         Consumption |-> d[i].Consumption, Unit |-> d[i].Unit]]

\* the group key of a row
Key(row) == <<row.Area, row.Continent, row.ISO3, row.Year>>

\* the order groupby(sort=True) lists the group keys in
KeyLt(a, b) ==
    \/ StrLt(a[1], b[1])
    \/ a[1] = b[1] /\ StrLt(a[2], b[2])
    \/ a[1] = b[1] /\ a[2] = b[2] /\ StrLt(a[3], b[3])
    \/ a[1] = b[1] /\ a[2] = b[2] /\ a[3] = b[3] /\ a[4] < b[4]

RECURSIVE SortKeys(_)
SortKeys(K) ==
    IF K = {} THEN <<>>
    ELSE LET m == CHOOSE k \in K : \A o \in K \ {k} : KeyLt(k, o)
         IN  <<m>> \o SortKeys(K \ {m})

\* the group keys with dropna=False: a missing key is a key like any other
GroupKeysKeepNA(d) == {Key(d[i]) : i \in 1..Len(d)}

\* the group keys of a frame: groupby drops the rows with a missing key
\* (dropna=True)
GroupKeys(d) ==
    {Key(d[i]) : i \in {j \in 1..Len(d) : d[j].ISO3 # NA /\ d[j].Continent # NA}}

\* the value of a row in the column named col
Col(row, col) ==
    CASE col = "Import" -> row.Import
      [] col = "Export " -> row.ExportRaw
      [] col = "Export" -> row.Export
      [] col = "Production" -> row.Production
      [] col = "Consumption" -> row.Consumption
      [] col = "Net Trade" -> row.NetTrade
      [] col = "Self-Sufficiency Ratio" -> row.SelfSufficiencyRatio

\* GroupSum with "last" for "sum": a duplicate overwrites the rows before it
GroupLast(d, k, col) ==
    LET g == SelectSeq(d, LAMBDA row : Key(row) = k) IN Col(g[Len(g)], col)

\* GroupSum with "first" for "sum": the value of the first row of the group
GroupFirst(d, k, col) ==
    LET g == SelectSeq(d, LAMBDA row : Key(row) = k) IN Col(g[1], col)

\* GroupSum with "count" for "sum": the number of rows of the group
GroupCount(d, k, col) == Len(SelectSeq(d, LAMBDA row : Key(row) = k))

\* the "sum" of one column over the rows of one group
GroupSum(d, k, col) ==
    LET g == SelectSeq(d, LAMBDA row : Key(row) = k)
    IN  SumSeq([i \in 1..Len(g) |-> Col(g[i], col)])

\* GroupByAgg without the grouping: one output row per input row
GroupByAggPerRow(d) ==
    LET kept == SelectSeq(d, LAMBDA row : row.ISO3 # NA /\ row.Continent # NA)
    IN  [i \in 1..Len(kept) |->
            [Area |-> kept[i].Area, Continent |-> kept[i].Continent,
             ISO3 |-> kept[i].ISO3, Year |-> kept[i].Year,
             Import |-> kept[i].Import, Export |-> kept[i].Export,
             Production |-> kept[i].Production,
             Consumption |-> kept[i].Consumption]]

\* l.84-88: groupby(["Area", "Continent", "ISO-3", "Year"]).agg(sum of the
\* four metrics).reset_index()
GroupByAgg(d) ==
    LET ks == SortKeys(GroupKeys(d))
    IN  [g \in 1..Len(ks) |->
            [Area |-> ks[g][1], Continent |-> ks[g][2], ISO3 |-> ks[g][3],
             Year |-> ks[g][4],
             Import |-> GroupSum(d, ks[g], "Import"),
             Export |-> GroupSum(d, ks[g], "Export"),
             Production |-> GroupSum(d, ks[g], "Production"),
             Consumption |-> GroupSum(d, ks[g], "Consumption")]]

\* NetTradeOf with the operands swapped
NetTradeSwapped(row) == row.Import - row.Export

\* l.91: data["Net Trade"] = data["Export"] - data["Import"]
NetTradeOf(row) == row.Export - row.Import

\* l.92: data["Self-Sufficiency Ratio"] = data["Production"] / data["Consumption"]
SelfSufficiencyRatioOf(row) == TrueDiv(row.Production, row.Consumption)

\* l.91-92: the two derived columns
Derive(d) ==
    [i \in 1..Len(d) |->
        [Area |-> d[i].Area, Continent |-> d[i].Continent, ISO3 |-> d[i].ISO3,
         Year |-> d[i].Year, Import |-> d[i].Import, Export |-> d[i].Export,
         Production |-> d[i].Production, Consumption |-> d[i].Consumption,
         NetTrade |-> NetTradeOf(d[i]),
         SelfSufficiencyRatio |-> SelfSufficiencyRatioOf(d[i])]]

(***************************************************************************)
(* The script as a state machine: one action per statement.                *)
(***************************************************************************)
NoOutput == [fn |-> "none"]

\* the threads of the development server (app.run, l.1080): werkzeug
\* handles every request in a thread of its own
Threads == 1..NumThreads

\* a thread that handles no request
Idle == [fn |-> "none", step |-> "idle"]

\* l.17-19: the two files are read
InitFiles ==
    /\ data = raw
    /\ pc = "clean"
    /\ out = NoOutput
    /\ calls = [t \in Threads |-> Idle]

\* l.21-39: the numeric columns are cleaned; a code that is no integer
\* literal makes astype raise, and the script stops
CleanNumericColumns ==
    /\ pc = "clean"
    /\ IF /\ ColumnIsInt([i \in 1..Len(data) |-> data[i].M49])
          /\ ColumnIsInt([i \in 1..Len(ref_table) |-> ref_table[i].NumericCode])
       THEN /\ data' = CleanData(data)
            /\ ref_table' = CleanRef(ref_table)
            /\ pc' = "fix"
       ELSE /\ pc' = "raised"
            /\ UNCHANGED <<data, ref_table, calls>>
    /\ UNCHANGED <<cc, raw, out, calls>>

\* l.41-42
FixSudan ==
    /\ pc = "fix"
    /\ data' = FixSudanCode(data)
    /\ pc' = "shorten"
    /\ UNCHANGED <<ref_table, cc, raw, out, calls>>

\* l.44-47
ShortenAreaName ==
    /\ pc = "shorten"
    /\ data' = ShortenArea(data)
    /\ pc' = "merge"
    /\ UNCHANGED <<ref_table, cc, raw, out, calls>>

\* l.49-53
MergeRef ==
    /\ pc = "merge"
    /\ data' = Merge(data, ref_table)
    /\ pc' = "convert"
    /\ UNCHANGED <<ref_table, cc, raw, out, calls>>

\* l.55-61
Classify ==
    /\ pc = "convert"
    /\ data' = ConvertContinent(data, cc)
    /\ pc' = "filter"
    /\ UNCHANGED <<ref_table, cc, raw, out, calls>>

\* l.63-81
FilterAndSelect ==
    /\ pc = "filter"
    /\ data' = SelectRename(FilterContinent(data))
    /\ pc' = "group"
    /\ UNCHANGED <<ref_table, cc, raw, out, calls>>

\* l.83-88
Aggregate ==
    /\ pc = "group"
    /\ data' = GroupByAgg(data)
    /\ pc' = "derive"
    /\ UNCHANGED <<ref_table, cc, raw, out, calls>>

\* l.90-92, after which the app is created and serves callbacks
DeriveColumns ==
    /\ pc = "derive"
    /\ data' = Derive(data)
    /\ pc' = "serve"
    /\ UNCHANGED <<ref_table, cc, raw, out, calls>>

NextBuild ==
    \/ CleanNumericColumns
    \/ FixSudan
    \/ ShortenAreaName
    \/ MergeRef
    \/ Classify
    \/ FilterAndSelect
    \/ Aggregate
    \/ DeriveColumns

\* the pipeline alone, on small raw files, every reference table and
\* every converter of the model
InitBuild ==
    /\ raw \in RawFiles
    /\ ref_table \in RefTables
    /\ cc \in Converters
    /\ InitFiles

SpecBuild == InitBuild /\ [][NextBuild]_vars

\* the canonical table is complete
Built == pc = "serve"

(***************************************************************************)
(* The inputs of the dashboard specification: NumAreas Asian areas and     *)
(* Sudan report in 2000, three of the areas also in 2001.                  *)
(***************************************************************************)
\* the areas of the dashboard specification, with their raw M49 codes
WorldAreas ==
    << <<"China", <<"1", "5", "6">>>>,
       <<"India", <<"3", "5", "6">>>>,
       <<"Indonesia", <<"\"", "3", "6", "0", "\"">>>>,
       <<"Nepal", <<"5", "2", "4">>>>,
       <<"Viet Nam", <<"7", "0", "4", " ">>>>,
       <<"Thailand", <<"7", "6", "4">>>> >>

\* the row area a reports for 2000: metric values that differ from area to
\* area, or the values several areas share (zero Export and Consumption)
WorldRow(a, shared) ==
    IF shared
    THEN RawRow(WorldAreas[a][1], WorldAreas[a][2], 2000, 20, 0, 30, 0)
    ELSE RawRow(WorldAreas[a][1], WorldAreas[a][2], 2000, 10 * a, 80 - 10 * a,
                10 * a, 5)

\* the row of Sudan for 2000, and the rows of 2001: the first area reports
\* in two rows, two areas tie on Import, one has 0 / 0 as its ratio
FixedRows ==
    << RawRow("Sudan", <<"7", "2", "9">>, 2000, 15, 75, 65, 5),
       RawRow(WorldAreas[1][1], WorldAreas[1][2], 2001, 1, 0, 0, 0),
       RawRow(WorldAreas[1][1], WorldAreas[1][2], 2001, 0, 1, 0, 0),
       RawRow(WorldAreas[2][1], WorldAreas[2][2], 2001, 2, 0, 4, 2),
       RawRow(WorldAreas[3][1], WorldAreas[3][2], 2001, 2, 5, 4, 4) >>

\* the raw files of the dashboard specification
WorldFiles ==
    {[a \in 1..NumAreas |-> WorldRow(a, a \in T)] \o FixedRows :
        T \in SUBSET (1..NumAreas)}

(***************************************************************************)
(* The callbacks: what they compute from `data`.                           *)
(***************************************************************************)
\* the metric lists of the dropdowns (l.151-158, l.262-267) and of
\* country_level_plots (l.912-919)
metrics ==
    <<"Import", "Export", "Production", "Consumption", "Net Trade",
      "Self-Sufficiency Ratio">>

RawMetrics == <<"Import", "Export", "Production", "Consumption">>

\* the scope-picker options (l.561-568)
Scopes == Continents \cup {"the Whole World"}

\* the years a callback is invoked with: the two years of the table and a
\* year it does not hold
QueryYears == {1999, 2000, 2001}

\* a year input that is None (the input box is empty)
NoYear == 0

\* the values of the start-year and end-year inputs
YearInputs == {NoYear, 2000, 2001}

\* the values of the country picker: None, or the list of picked areas
CountryInputs ==
    {[given |-> FALSE, names |-> {}],
     [given |-> TRUE, names |-> {"China", "India", "Sudan"}]}

\* no_update as a download output
no_update == [filename |-> "no_update", content |-> <<>>]

\* dcc.send_data_frame(frame.to_csv, filename, index=False)
SendDataFrame(frame, filename) == [filename |-> filename, content |-> frame]

\* n_clicks of a download button that was never clicked (None)
NoClicks == 0

\* the values of n_clicks: never clicked, or clicked (some time ago, or now)
ClickCounts == {NoClicks, 1}

\* the inputs Dash can invoke a callback with: the button triggers only
\* when it has been clicked
Clicked(triggered_id, button, n_clicks) ==
    triggered_id = button => n_clicks # NoClicks

\* Download deciding on n_clicks: a file as soon as the button was ever
\* clicked
DownloadOnClicks(triggered_id, button, n_clicks, frame, filename) ==
    IF n_clicks # NoClicks THEN SendDataFrame(frame, filename) ELSE no_update

\* download_df (l.761-764, l.833-838, l.929-934): n_clicks is not read
Download(triggered_id, button, n_clicks, frame, filename) ==
    IF triggered_id = button THEN SendDataFrame(frame, filename) ELSE no_update

\* the Int64 <NA> of a rank column, and the rank columns hold ranks >= 1
NoRank == 0

\* a metric column as floats
FCol(row, metric) ==
    IF metric = "Self-Sufficiency Ratio"
    THEN row.SelfSufficiencyRatio
    ELSE FromInt(Col(row, metric))

\* the sum() of a float column: NaN is skipped
RECURSIVE FSum(_)
FSum(s) ==
    IF s = <<>> THEN FromInt(0)
    ELSE IF IsNaN(Head(s)) THEN FSum(Tail(s))
    ELSE FAdd(Head(s), FSum(Tail(s)))

\* the mean() of a float column: NaN is skipped, the empty mean is NaN
FMean(s) ==
    LET v == SelectSeq(s, LAMBDA x : ~IsNaN(x))
    IN  IF v = <<>> THEN NaN ELSE FDivInt(FSum(v), Len(v))

Min(S) == CHOOSE x \in S : \A y \in S : x <= y

RECURSIVE SortInts(_)
SortInts(S) == IF S = {} THEN <<>> ELSE <<Min(S)>> \o SortInts(S \ {Min(S)})

\* data[data["Year"] == year]
YearSlice(d, year) == SelectSeq(d, LAMBDA row : row.Year = year)

\* the frame a scope and a year select (l.1027, l.1033)
ScopeFrame(d, year, scope) ==
    IF scope = "the Whole World"
    THEN YearSlice(d, year)
    ELSE SelectSeq(d, LAMBDA row : row.Year = year /\ row.Continent = scope)

\* sort_values(metric, ascending=True): the smallest values first
RECURSIVE SortOrdersAsc(_, _, _)
SortOrdersAsc(d, S, metric) ==
    IF S = {} THEN {<<>>}
    ELSE LET nn == {i \in S : ~IsNaN(FCol(d[i], metric))}
             first == IF nn = {} THEN {Min(S)}
                      ELSE {i \in nn : \A j \in nn :
                               ~FLt(FCol(d[j], metric), FCol(d[i], metric))}
         IN  UNION {{<<i>> \o t : t \in SortOrdersAsc(d, S \ {i}, metric)} :
                       i \in first}

\* sort_values(metric, ascending=False): the default quicksort is not
\* stable, so rows with equal values come in any order; NaN rows come last,
\* in frame order.  The set of the orders (of row positions) it can produce.
RECURSIVE SortOrdersDesc(_, _, _)
SortOrdersDesc(d, S, metric) ==
    IF S = {} THEN {<<>>}
    ELSE LET nn == {i \in S : ~IsNaN(FCol(d[i], metric))}
             first == IF nn = {} THEN {Min(S)}
                      ELSE {i \in nn : \A j \in nn :
                               ~FLt(FCol(d[i], metric), FCol(d[j], metric))}
         IN  UNION {{<<i>> \o t : t \in SortOrdersDesc(d, S \ {i}, metric)} :
                       i \in first}

\* .iloc[:5, :] of a frame
Head5(s) == SubSeq(s, 1, IF Len(s) < 5 THEN Len(s) ELSE 5)

\* plot_df with the filler rows a fixed-size table would be padded with
PlotFramesPadded(d, metric, year, scope) ==
    LET f == ScopeFrame(d, year, scope)
        blank == [Area |-> "", Continent |-> scope, ISO3 |-> "", Year |-> year,
                  Import |-> 0, Export |-> 0, Production |-> 0,
                  Consumption |-> 0, NetTrade |-> 0,
                  SelfSufficiencyRatio |-> NaN]
    IN  {[i \in 1..5 |-> IF i <= Len(o) THEN f[o[i]] ELSE blank] :
            o \in SortOrdersDesc(f, 1..Len(f), metric)}

\* the frames plot_df can be (l.1026-1028, l.1032-1036)
PlotFrames(d, metric, year, scope) ==
    LET f == ScopeFrame(d, year, scope)
    IN  {[i \in 1..Len(Head5(o)) |-> f[o[i]]] :
            o \in SortOrdersDesc(f, 1..Len(f), metric)}

\* the market total of the top five rows only
MarketTotalOfTop5(d, metric, year, scope) ==
    LET f == ScopeFrame(d, year, scope)
        o == CHOOSE x \in SortOrdersDesc(f, 1..Len(f), metric) : TRUE
    IN  SumSeq([i \in 1..Len(Head5(o)) |-> Col(f[o[i]], metric)])

\* market_total (l.1029, l.1037-1039): the sum over the whole scope
MarketTotal(d, metric, year, scope) ==
    LET f == ScopeFrame(d, year, scope)
    IN  SumSeq([i \in 1..Len(f) |-> Col(f[i], metric)])

\* n / d rounded to the nearest integer, halves to the even one (d > 0)
RoundHalfEven(n, d) ==
    LET q == n \div d
        r == n % d
    IN  IF 2 * r < d THEN q
        ELSE IF 2 * r > d THEN q + 1
        ELSE IF q % 2 = 0 THEN q ELSE q + 1

\* f"{x:.2f}%": a finite x as its number of hundredths, "inf%", "-inf%", "nan%"
Format2f(x) ==
    IF x.k = "fin"
    THEN [k |-> "fin", hundredths |-> RoundHalfEven(x.n * 100, x.d)]
    ELSE [k |-> x.k, hundredths |-> 0]

\* value / market_total * 100 on numpy scalars: a zero total gives inf or
\* NaN with a warning, not an exception
MarketShare(value, total) ==
    LET q == TrueDiv(value, total)
    IN  Format2f(IF q.k = "fin" THEN Fin(q.n * 100, q.d) ELSE q)

\* what top5_plot_and_table returns for one plot_df (l.1041-1076);
\* plot_df["Area"].iloc[k] raises IndexError past the end of the frame
Top5Result(plot_df, total, metric, year, scope) ==
    IF Len(plot_df) < 5
    THEN [fn |-> "top5_plot_and_table", metric |-> metric, year |-> year,
          scope |-> scope, raised |-> "IndexError", bars |-> {},
          names |-> <<>>, shares |-> <<>>]
    ELSE [fn |-> "top5_plot_and_table", metric |-> metric, year |-> year,
          scope |-> scope, raised |-> "none",
          bars |-> {<<plot_df[i].Area, Col(plot_df[i], metric)>> :
                       i \in 1..Len(plot_df)},
          names |-> [i \in 1..5 |-> plot_df[i].Area],
          shares |-> [i \in 1..5 |->
                         MarketShare(Col(plot_df[i], metric), total)]]

\* the positions of the rows of a year
YearRows(d, year) == {i \in 1..Len(d) : d[i].Year = year}

\* the values of the rows S, largest first, NaN left out
RECURSIVE SortValuesDesc(_, _, _)
SortValuesDesc(d, S, metric) ==
    LET nn == {i \in S : ~IsNaN(FCol(d[i], metric))}
    IN  IF nn = {} THEN <<>>
        ELSE LET m == CHOOSE i \in nn : \A j \in nn :
                          ~FLt(FCol(d[i], metric), FCol(d[j], metric))
             IN  <<FCol(d[m], metric)>> \o SortValuesDesc(d, nn \ {m}, metric)

\* rank(method="dense") instead of "min": the rank is the number of distinct
\* values that are not smaller
RankDense(d, i, metric) ==
    LET v == FCol(d[i], metric)
    IN  IF IsNaN(v) THEN NoRank
        ELSE Cardinality({FCol(d[j], metric) :
                 j \in {x \in YearRows(d, d[i].Year) :
                           ~IsNaN(FCol(d[x], metric))
                           /\ ~FLt(FCol(d[x], metric), v)}})

\* rank(method="min") without the groupby("Year")
RankAllYears(d, i, metric) ==
    LET v == FCol(d[i], metric)
        sorted == SortValuesDesc(d, 1..Len(d), metric)
    IN  IF IsNaN(v) THEN NoRank
        ELSE Min({p \in 1..Len(sorted) : FEq(sorted[p], v)})

\* groupby("Year")[metric].rank(method="min", ascending=False)
\* .astype("Int64") for row i: the first place of its value among the
\* values of its year sorted from the largest; NaN has no rank
RankMin(d, i, metric) ==
    LET v == FCol(d[i], metric)
        sorted == SortValuesDesc(d, YearRows(d, d[i].Year), metric)
    IN  IF IsNaN(v) THEN NoRank
        ELSE Min({p \in 1..Len(sorted) : FEq(sorted[p], v)})

\* WithRankColumns with the loop over the four metrics of the top-5 picker
WithRawRankColumns(d) ==
    [i \in 1..Len(d) |->
        [Area |-> d[i].Area, Continent |-> d[i].Continent, ISO3 |-> d[i].ISO3,
         Year |-> d[i].Year, Import |-> d[i].Import, Export |-> d[i].Export,
         Production |-> d[i].Production, Consumption |-> d[i].Consumption,
         NetTrade |-> d[i].NetTrade,
         SelfSufficiencyRatio |-> d[i].SelfSufficiencyRatio,
         Rank |-> [m \in Range(RawMetrics) |-> RankMin(d, i, m)]]]

\* data.copy() with the six <metric>_Rank columns (l.911-925)
WithRankColumns(d) ==
    [i \in 1..Len(d) |->
        [Area |-> d[i].Area, Continent |-> d[i].Continent, ISO3 |-> d[i].ISO3,
         Year |-> d[i].Year, Import |-> d[i].Import, Export |-> d[i].Export,
         Production |-> d[i].Production, Consumption |-> d[i].Consumption,
         NetTrade |-> d[i].NetTrade,
         SelfSufficiencyRatio |-> d[i].SelfSufficiencyRatio,
         Rank |-> [m \in Range(metrics) |-> RankMin(d, i, m)]]]

\* world_rank_data[["Area", "Year"] + rank columns] (l.926)
WorldRankData(d) ==
    LET w == WithRankColumns(d)
    IN  [i \in 1..Len(w) |->
            [Area |-> w[i].Area, Year |-> w[i].Year, Rank |-> w[i].Rank]]

\* the module-level frame after a callback assigned columns to the frame
\* `work`, had the callback not taken a copy (work aliases data)
DataAliased(d, work) == work

\* the module-level frame after a callback assigned columns to `work`, a
\* data.copy() (l.911, l.966): the copy takes the writes
DataAfterCopy(d, work) == d

\* the value of `metric` once the loop `for metric in metrics` (l.920) has
\* run: the loop variable is the parameter, and keeps the last list entry
MetricAfterLoop(metric) == metrics[Len(metrics)]

\* cond with range(start_year, end_year): the end year left out
CondExclusiveEnd(row, countries, start_year, end_year) ==
    row.Area \in countries /\ row.Year \in start_year..(end_year - 1)

\* cond (l.947-949)
Cond(row, countries, start_year, end_year) ==
    row.Area \in countries /\ row.Year \in start_year..end_year

\* the distinct years of a frame, ascending (groupby sorts its keys)
Years(d) == SortInts({d[i].Year : i \in 1..Len(d)})

\* data.groupby("Year")[metric].mean().to_frame().reset_index() (l.745)
YearMeans(d, metric) ==
    LET ys == Years(d)
    IN  [y \in 1..Len(ys) |->
            LET g == YearSlice(d, ys[y])
            IN  [Year |-> ys[y],
                 mean |-> FMean([i \in 1..Len(g) |-> FCol(g[i], metric)])]]

\* what global_overview_plots returns (l.695-766); the colour scale of the
\* map (cmin, cmax) is layout and is left out
GlobalOverview(d, metric, year, triggered_id, n_clicks) ==
    [fn |-> "global_overview_plots", metric |-> metric, year |-> year,
     triggered_id |-> triggered_id, n_clicks |-> n_clicks, raised |-> "none",
     global_map |-> {[ISO3 |-> r.ISO3, Area |-> r.Area, Year |-> r.Year,
                      color |-> FCol(r, metric)] : r \in Range(YearSlice(d, year))},
     global_time_series |-> YearMeans(d, metric),
     download |-> Download(triggered_id, "btn-download1", n_clicks, d,
                           "map_data.csv")]

\* the (Continent, Year) pairs of a frame in groupby order
RECURSIVE SortPairs(_)
SortPairs(K) ==
    IF K = {} THEN <<>>
    ELSE LET m == CHOOSE k \in K : \A o \in K \ {k} :
                      \/ StrLt(k[1], o[1])
                      \/ k[1] = o[1] /\ k[2] < o[2]
         IN  <<m>> \o SortPairs(K \ {m})

\* ContinentYearSum with "first" for "sum": the value of the first row
ContinentYearFirst(d, k, col) ==
    LET g == SelectSeq(d, LAMBDA row : row.Continent = k[1] /\ row.Year = k[2])
    IN  Col(g[1], col)

\* the sum of a column over the rows of one continent and year
ContinentYearSum(d, k, col) ==
    LET g == SelectSeq(d, LAMBDA row : row.Continent = k[1] /\ row.Year = k[2])
    IN  SumSeq([i \in 1..Len(g) |-> Col(g[i], col)])

\* data.groupby(["Continent", "Year"]).agg({metric: "sum"}).reset_index()
\* (l.792, l.856)
PlotDf(d, metric) ==
    LET ks == SortPairs({<<d[i].Continent, d[i].Year>> : i \in 1..Len(d)})
    IN  [g \in 1..Len(ks) |->
            [Continent |-> ks[g][1], Year |-> ks[g][2],
             value |-> ContinentYearSum(d, ks[g], metric)]]

\* continental_df (l.819-830)
ContinentalDf(d) ==
    LET ks == SortPairs({<<d[i].Continent, d[i].Year>> : i \in 1..Len(d)})
    IN  [g \in 1..Len(ks) |->
            [Continent |-> ks[g][1], Year |-> ks[g][2],
             Import |-> ContinentYearSum(d, ks[g], "Import"),
             Export |-> ContinentYearSum(d, ks[g], "Export"),
             Production |-> ContinentYearSum(d, ks[g], "Production"),
             Consumption |-> ContinentYearSum(d, ks[g], "Consumption")]]

\* what continent_analysis_plots returns (l.778-840); the stacked area
\* chart gets plot_df and groupnorm="percent"
ContinentAnalysis(d, metric, triggered_id, n_clicks) ==
    [fn |-> "continent_analysis_plots", metric |-> metric,
     triggered_id |-> triggered_id, n_clicks |-> n_clicks, raised |-> "none",
     continent_stacked_area |-> [frame |-> PlotDf(d, metric),
                                 groupnorm |-> "percent"],
     download |-> Download(triggered_id, "btn-download2", n_clicks,
                           ContinentalDf(d), "continental_data.csv")]

\* what continent_analysis_plots2 returns (l.849-875); hover is the hovered
\* year, or NoYear when hoverData is None
ContinentAnalysis2(d, metric, hover) ==
    IF hover = NoYear
    THEN [fn |-> "continent_analysis_plots2", metric |-> metric,
          hover |-> hover, raised |-> "PreventUpdate",
          continent_bar_chart |-> <<>>]
    ELSE [fn |-> "continent_analysis_plots2", metric |-> metric,
          hover |-> hover, raised |-> "none",
          continent_bar_chart |->
              SelectSeq(PlotDf(d, metric), LAMBDA row : row.Year = hover)]

\* what country_level_plots returns (l.892-995)
CountryLevel(d, countries, metric, start_year, end_year, triggered_id, n_clicks) ==
    LET download_df == Download(triggered_id, "btn-download3", n_clicks,
                                WorldRankData(d), "world_rank_data.csv")
        m == MetricAfterLoop(metric)
        base == [fn |-> "country_level_plots", countries |-> countries,
                 metric |-> metric, start_year |-> start_year,
                 end_year |-> end_year, triggered_id |-> triggered_id,
                 n_clicks |-> n_clicks, raised |-> "none", download |-> download_df]
        Empty(warning) ==
            [fn |-> base.fn, countries |-> countries, metric |-> metric,
             start_year |-> start_year, end_year |-> end_year,
             triggered_id |-> triggered_id, n_clicks |-> n_clicks,
             raised |-> "none",
             download |-> download_df, title |-> metric, plotted |-> m,
             empty |-> TRUE, warning |-> warning,
             country_time_series |-> <<>>, country_world_rank |-> <<>>]
        picked == {i \in 1..Len(d) :
                      Cond(d[i], countries.names, start_year, end_year)}
        rows == SortInts(picked)
    IN  IF ~countries.given \/ start_year = NoYear \/ end_year = NoYear
        THEN Empty("")
        ELSE IF end_year <= start_year
        THEN Empty("End year must be greater than start year.")
        ELSE [fn |-> base.fn, countries |-> countries, metric |-> metric,
              start_year |-> start_year, end_year |-> end_year,
              triggered_id |-> triggered_id, n_clicks |-> n_clicks,
              raised |-> "none",
              download |-> download_df, title |-> metric, plotted |-> m,
              empty |-> FALSE, warning |-> "",
              country_time_series |->
                  [i \in 1..Len(rows) |->
                      [Area |-> d[rows[i]].Area, Year |-> d[rows[i]].Year,
                       y |-> FCol(d[rows[i]], m)]],
              country_world_rank |->
                  [i \in 1..Len(rows) |->
                      [Area |-> d[rows[i]].Area, Year |-> d[rows[i]].Year,
                       world_rank |-> RankMin(d, rows[i], m)]]]

(***************************************************************************)
(* The callbacks as actions: Dash invokes them once the app serves.  An    *)
(* invocation handles one request: `out` holds what it returns (or what it *)
(* raises) until the response is sent.                                     *)
(***************************************************************************)
global_overview_plots ==
    /\ pc = "serve"
    /\ out = NoOutput
    /\ \E metric \in Range(metrics), year \in QueryYears,
          triggered_id \in {"metric-picker", "year-picker", "btn-download1"},
          n_clicks \in ClickCounts :
          /\ Clicked(triggered_id, "btn-download1", n_clicks)
          /\ out' = GlobalOverview(data, metric, year, triggered_id, n_clicks)
    /\ UNCHANGED <<data, ref_table, cc, raw, pc, calls>>

continent_analysis_plots ==
    /\ pc = "serve"
    /\ out = NoOutput
    /\ \E metric \in Range(RawMetrics),
          triggered_id \in {"metric-picker-2", "btn-download2"},
          n_clicks \in ClickCounts :
          /\ Clicked(triggered_id, "btn-download2", n_clicks)
          /\ out' = ContinentAnalysis(data, metric, triggered_id, n_clicks)
    /\ UNCHANGED <<data, ref_table, cc, raw, pc, calls>>

continent_analysis_plots2 ==
    /\ pc = "serve"
    /\ out = NoOutput
    /\ \E metric \in Range(RawMetrics), hover \in {NoYear} \cup QueryYears :
          out' = ContinentAnalysis2(data, metric, hover)
    /\ UNCHANGED <<data, ref_table, cc, raw, pc, calls>>

country_level_plots ==
    /\ pc = "serve"
    /\ out = NoOutput
    /\ \E countries \in CountryInputs, metric \in Range(metrics),
          start_year \in YearInputs, end_year \in YearInputs,
          triggered_id \in {"country-picker", "metric-picker-3", "start-year",
                            "end-year", "btn-download3"},
          n_clicks \in ClickCounts :
          /\ Clicked(triggered_id, "btn-download3", n_clicks)
          /\ out' = CountryLevel(data, countries, metric, start_year,
                                 end_year, triggered_id, n_clicks)
    /\ data' = DataAfterCopy(data, WithRankColumns(data))
    /\ UNCHANGED <<ref_table, cc, raw, pc, calls>>

top5_plot_and_table ==
    /\ pc = "serve"
    /\ out = NoOutput
    /\ \E metric \in Range(RawMetrics), year \in QueryYears, scope \in Scopes :
          \E plot_df \in PlotFrames(data, metric, year, scope) :
              out' = Top5Result(plot_df,
                                MarketTotal(data, metric, year, scope),
                                metric, year, scope)
    /\ UNCHANGED <<data, ref_table, cc, raw, pc, calls>>

\* the response of the last invocation is sent to the browser
Respond ==
    /\ pc = "serve"
    /\ out # NoOutput
    /\ out' = NoOutput
    /\ UNCHANGED <<data, ref_table, cc, raw, pc, calls>>

NextQuery ==
    \/ Respond
    \/ global_overview_plots
    \/ continent_analysis_plots
    \/ continent_analysis_plots2
    \/ country_level_plots
    \/ top5_plot_and_table

Next == NextBuild \/ NextQuery

\* the dashboard: the script runs on a raw file of the world, then the
\* callbacks are invoked in any order with any inputs
Init ==
    /\ raw \in WorldFiles
    /\ ref_table = RefRows
    /\ cc = BaseConverter
    /\ InitFiles

Spec == Init /\ [][Next]_vars

(***************************************************************************)
(* The callbacks on the threads of the server.  A thread runs one callback *)
(* invocation statement by statement; a step is one statement that reads   *)
(* the module-level `data` or assigns to a frame.  calls[t] holds the      *)
(* callback, its arguments `a`, the next step, the local values read so    *)
(* far, and `res`, what the invocation returns.  `overlap` records that    *)
(* the invocation read `data` while another thread was inside the loop     *)
(* that assigns the rank columns (l.920-925).                              *)
(***************************************************************************)
\* the raw files of the threaded specification: no ties, or two areas that
\* share their values
ConcFiles ==
    {[a \in 1..NumAreas |-> WorldRow(a, a \in T)] \o FixedRows :
        T \in {{}, {1, 2}}}

\* the arguments the threads invoke the callbacks with
ConcGlobalArgs ==
    [metric : {"Import", "Self-Sufficiency Ratio"}, year : {2000},
     triggered_id : {"year-picker", "btn-download1"}, n_clicks : {1}]

ConcContinentArgs ==
    [metric : {"Export"}, triggered_id : {"metric-picker-2", "btn-download2"},
     n_clicks : {1}]

ConcContinent2Args == [metric : {"Export"}, hover : {NoYear, 2000}]

ConcCountryArgs ==
    [countries : CountryInputs, metric : {"Import"}, start_year : {2000},
     end_year : {2001}, triggered_id : {"end-year", "btn-download3"},
     n_clicks : {1}]

ConcTop5Args ==
    [metric : {"Import"}, year : {2000}, scope : {"Asia", "the Whole World"}]

\* another thread is inside the loop l.920-925
WriterActive(t) ==
    \E u \in Threads \ {t} : calls[u].step = "rank" /\ calls[u].j > 1

\* the statement a thread of the callback fn begins with
FirstStep(fn) ==
    CASE fn = "global_overview_plots" -> "map"
      [] fn = "continent_analysis_plots" -> "plot_df"
      [] fn = "continent_analysis_plots2" -> "hover"
      [] fn = "country_level_plots" -> "copy"
      [] fn = "top5_plot_and_table" -> "plot_df"

\* the request is routed to the callback: nothing is read yet
BeginCall(t, fn, Args) ==
    /\ pc = "serve"
    /\ calls[t] = Idle
    /\ \E a \in Args :
          calls' = [calls EXCEPT ![t] =
                       [fn |-> fn, a |-> a, step |-> FirstStep(fn),
                        overlap |-> FALSE]]
    /\ UNCHANGED <<data, ref_table, cc, raw, pc, out>>

\* the thread t is at the statement `step` of the callback fn
At(t, fn, step) == pc = "serve" /\ calls[t].fn = fn /\ calls[t].step = step

\* the return statement: the locals are dropped, the result is kept until
\* the response is sent
Return(t, res) ==
    [fn |-> calls[t].fn, a |-> calls[t].a, step |-> "done",
     overlap |-> calls[t].overlap \/ WriterActive(t), res |-> res]

BeginGlobalOverview(t) ==
    BeginCall(t, "global_overview_plots", ConcGlobalArgs)

\* l.712-740: data[data["Year"] == year] is read for the map
GoMap(t) ==
    /\ At(t, "global_overview_plots", "map")
    /\ LET c == calls[t]
       IN  calls' = [calls EXCEPT ![t] =
               [fn |-> c.fn, a |-> c.a, step |-> "series",
                overlap |-> c.overlap \/ WriterActive(t),
                global_map |->
                    GlobalOverview(data, c.a.metric, c.a.year,
                                   c.a.triggered_id, c.a.n_clicks).global_map]]
    /\ UNCHANGED <<data, ref_table, cc, raw, pc, out>>

\* l.743-758: data.groupby("Year")[metric].mean() is read
GoSeries(t) ==
    /\ At(t, "global_overview_plots", "series")
    /\ LET c == calls[t]
       IN  calls' = [calls EXCEPT ![t] =
               [fn |-> c.fn, a |-> c.a, step |-> "download",
                overlap |-> c.overlap \/ WriterActive(t),
                global_map |-> c.global_map,
                global_time_series |->
                    GlobalOverview(data, c.a.metric, c.a.year,
                                   c.a.triggered_id, c.a.n_clicks).global_time_series]]
    /\ UNCHANGED <<data, ref_table, cc, raw, pc, out>>

\* l.761-766: data is read for the download, and the callback returns
GoReturn(t) ==
    /\ At(t, "global_overview_plots", "download")
    /\ LET c == calls[t]
       IN  calls' = [calls EXCEPT ![t] = Return(t,
               [GlobalOverview(data, c.a.metric, c.a.year, c.a.triggered_id,
                               c.a.n_clicks)
                   EXCEPT !.global_map = c.global_map,
                          !.global_time_series = c.global_time_series])]
    /\ UNCHANGED <<data, ref_table, cc, raw, pc, out>>

BeginContinentAnalysis(t) ==
    BeginCall(t, "continent_analysis_plots", ConcContinentArgs)

\* l.792-816: plot_df is read from data
CaPlot(t) ==
    /\ At(t, "continent_analysis_plots", "plot_df")
    /\ LET c == calls[t]
       IN  calls' = [calls EXCEPT ![t] =
               [fn |-> c.fn, a |-> c.a, step |-> "continental_df",
                overlap |-> c.overlap \/ WriterActive(t),
                continent_stacked_area |->
                    ContinentAnalysis(data, c.a.metric, c.a.triggered_id,
                                      c.a.n_clicks)
                        .continent_stacked_area]]
    /\ UNCHANGED <<data, ref_table, cc, raw, pc, out>>

\* l.819-840: continental_df is read from data, and the callback returns
CaReturn(t) ==
    /\ At(t, "continent_analysis_plots", "continental_df")
    /\ LET c == calls[t]
       IN  calls' = [calls EXCEPT ![t] = Return(t,
               [ContinentAnalysis(data, c.a.metric, c.a.triggered_id,
                                      c.a.n_clicks)
                   EXCEPT !.continent_stacked_area = c.continent_stacked_area])]
    /\ UNCHANGED <<data, ref_table, cc, raw, pc, out>>

BeginContinentAnalysis2(t) ==
    BeginCall(t, "continent_analysis_plots2", ConcContinent2Args)

\* l.852-875: PreventUpdate, or plot_df is read from data and returned
Ca2Return(t) ==
    /\ At(t, "continent_analysis_plots2", "hover")
    /\ calls' = [calls EXCEPT ![t] = Return(t,
           ContinentAnalysis2(data, calls[t].a.metric, calls[t].a.hover))]
    /\ UNCHANGED <<data, ref_table, cc, raw, pc, out>>


\* one pass of the loop l.920-925 over the frame w: the column <metric>_Rank
\* is assigned, computed from w itself
RankLoopStep(w, metric) ==
    [i \in 1..Len(w) |->
        IF "Rank" \in DOMAIN w[i]
        THEN [w[i] EXCEPT !.Rank = (metric :> RankMin(w, i, metric)) @@ @]
        ELSE w[i] @@ [Rank |-> (metric :> RankMin(w, i, metric))]]

\* l.926: the columns Area, Year and the rank columns of a frame
RankColumnsOf(w) ==
    [i \in 1..Len(w) |->
        [Area |-> w[i].Area, Year |-> w[i].Year, Rank |-> w[i].Rank]]

\* l.966-971: data.copy() with the column world_rank
WithWorldRank(d, metric) ==
    [i \in 1..Len(d) |-> d[i] @@ [world_rank |-> RankMin(d, i, metric)]]

BeginCountryLevel(t) ==
    BeginCall(t, "country_level_plots", ConcCountryArgs)

\* l.911: world_rank_data = data.copy()
ClCopy(t) ==
    /\ At(t, "country_level_plots", "copy")
    /\ LET c == calls[t]
       IN  calls' = [calls EXCEPT ![t] =
               [fn |-> c.fn, a |-> c.a, step |-> "rank",
                overlap |-> c.overlap \/ WriterActive(t),
                j |-> 1, world_rank_data |-> data]]
    /\ UNCHANGED <<data, ref_table, cc, raw, pc, out>>

\* l.920-925: one pass of the loop assigns a column to world_rank_data
ClRank(t) ==
    /\ At(t, "country_level_plots", "rank")
    /\ LET c == calls[t]
           w == RankLoopStep(c.world_rank_data, metrics[c.j])
       IN  /\ calls' = [calls EXCEPT ![t] =
                  [fn |-> c.fn, a |-> c.a,
                   step |-> IF c.j = Len(metrics) THEN "export" ELSE "rank",
                   overlap |-> c.overlap,
                   j |-> c.j + 1, world_rank_data |-> w]]
           /\ data' = DataAfterCopy(data, w)
    /\ UNCHANGED <<ref_table, cc, raw, pc, out>>

\* l.926-943: the projection, the download and the two early returns
ClExport(t) ==
    /\ At(t, "country_level_plots", "export")
    /\ LET c == calls[t]
           download_df ==
               Download(c.a.triggered_id, "btn-download3", c.a.n_clicks,
                        RankColumnsOf(c.world_rank_data),
                        "world_rank_data.csv")
       IN  calls' = [calls EXCEPT ![t] =
               IF \/ ~c.a.countries.given
                  \/ c.a.start_year = NoYear \/ c.a.end_year = NoYear
                  \/ c.a.end_year <= c.a.start_year
               THEN Return(t,
                        [CountryLevel(data, c.a.countries, c.a.metric,
                                      c.a.start_year, c.a.end_year,
                                      c.a.triggered_id, c.a.n_clicks)
                            EXCEPT !.download = download_df])
               ELSE [fn |-> c.fn, a |-> c.a, step |-> "series",
                     overlap |-> c.overlap, download |-> download_df]]
    /\ UNCHANGED <<data, ref_table, cc, raw, pc, out>>

\* l.947-962: cond and data[cond] are read from data
ClSeries(t) ==
    /\ At(t, "country_level_plots", "series")
    /\ LET c == calls[t]
       IN  calls' = [calls EXCEPT ![t] =
               [fn |-> c.fn, a |-> c.a, step |-> "world_rank",
                overlap |-> c.overlap \/ WriterActive(t),
                download |-> c.download,
                country_time_series |->
                    CountryLevel(data, c.a.countries, c.a.metric,
                                 c.a.start_year, c.a.end_year,
                                 c.a.triggered_id, c.a.n_clicks).country_time_series]]
    /\ UNCHANGED <<data, ref_table, cc, raw, pc, out>>

\* l.966-995: data_with_world_rank = data.copy(), its column world_rank is
\* assigned, and the callback returns
ClReturn(t) ==
    /\ At(t, "country_level_plots", "world_rank")
    /\ LET c == calls[t]
       IN  /\ calls' = [calls EXCEPT ![t] = Return(t,
                  [CountryLevel(data, c.a.countries, c.a.metric,
                                c.a.start_year, c.a.end_year,
                                c.a.triggered_id, c.a.n_clicks)
                      EXCEPT !.download = c.download,
                             !.country_time_series = c.country_time_series])]
           /\ data' = DataAfterCopy(data,
                          WithWorldRank(data, MetricAfterLoop(c.a.metric)))
    /\ UNCHANGED <<ref_table, cc, raw, pc, out>>

BeginTop5(t) == BeginCall(t, "top5_plot_and_table", ConcTop5Args)

\* l.1026-1028, l.1032-1036: plot_df is read from data
T5Plot(t) ==
    /\ At(t, "top5_plot_and_table", "plot_df")
    /\ LET c == calls[t]
       IN  \E plot_df \in PlotFrames(data, c.a.metric, c.a.year, c.a.scope) :
               calls' = [calls EXCEPT ![t] =
                   [fn |-> c.fn, a |-> c.a, step |-> "market_total",
                    overlap |-> c.overlap \/ WriterActive(t),
                    plot_df |-> plot_df]]
    /\ UNCHANGED <<data, ref_table, cc, raw, pc, out>>

\* l.1029, l.1037-1076: market_total is read from data, and the callback
\* returns or raises
T5Return(t) ==
    /\ At(t, "top5_plot_and_table", "market_total")
    /\ LET c == calls[t]
       IN  calls' = [calls EXCEPT ![t] = Return(t,
               Top5Result(c.plot_df,
                          MarketTotal(data, c.a.metric, c.a.year, c.a.scope),
                          c.a.metric, c.a.year, c.a.scope))]
    /\ UNCHANGED <<data, ref_table, cc, raw, pc, out>>

\* the response of a finished invocation is sent; the thread ends
Finish(t) ==
    /\ pc = "serve"
    /\ calls[t].step = "done"
    /\ calls' = [calls EXCEPT ![t] = Idle]
    /\ UNCHANGED <<data, ref_table, cc, raw, pc, out>>

ThreadStep(t) ==
    \/ BeginGlobalOverview(t) \/ GoMap(t) \/ GoSeries(t) \/ GoReturn(t)
    \/ BeginContinentAnalysis(t) \/ CaPlot(t) \/ CaReturn(t)
    \/ BeginContinentAnalysis2(t) \/ Ca2Return(t)
    \/ BeginCountryLevel(t) \/ ClCopy(t) \/ ClRank(t) \/ ClExport(t)
    \/ ClSeries(t) \/ ClReturn(t)
    \/ BeginTop5(t) \/ T5Plot(t) \/ T5Return(t)
    \/ Finish(t)

NextConc == NextBuild \/ \E t \in Threads : ThreadStep(t)

\* the dashboard with its callbacks on threads: their statements interleave
\* in any order, and nothing is locked
InitConc ==
    /\ raw \in ConcFiles
    /\ ref_table = RefRows
    /\ cc = BaseConverter
    /\ InitFiles

SpecConc == InitConc /\ [][NextConc]_vars

(***************************************************************************)
(* What the raw file says about a canonical row, stated on the inputs.     *)
(***************************************************************************)
\* the area name, the numeric code and the year a raw row enters the join with
RawArea(i) ==
    IF raw[i].Area = "United Kingdom of Great Britain and Northern Ireland"
    THEN "UK and Northern Ireland"
    ELSE raw[i].Area

RawCode(i) ==
    IF raw[i].Area = "Sudan" THEN 736 ELSE ToInt64(CleanStr(raw[i].M49))

\* the continent the converter gives raw row i
RawContinent(i) == cc[RawCode(i)]

\* raw row i reaches the group with key k: the converter resolves its code
\* to k's continent and the cleaned reference table lists its code with
\* k's ISO-3 (read once the build is over)
Contributes(i, k) ==
    /\ RawArea(i) = k[1]
    /\ RawContinent(i) = k[2]
    /\ raw[i].Year = k[4]
    /\ \E j \in 1..Len(ref_table) :
          /\ ref_table[j].NumericCode = RawCode(i)
          /\ ref_table[j].Alpha3 = k[3]

\* the sum of a raw column over the raw rows that reach the group with key k
RawSum(k, col) ==
    SumSeq([i \in 1..Len(raw) |->
               IF Contributes(i, k) THEN Col(raw[i], col) ELSE 0])

\* two raw rows of the same area and year
RawDuplicate ==
    \E i, j \in 1..Len(raw) :
        i < j /\ raw[i].Area = raw[j].Area /\ raw[i].Year = raw[j].Year

(***************************************************************************)
(* C1: after the pipeline build no two rows of the canonical table share   *)
(* the same (Area, Continent, ISO-3, Year).                                *)
(***************************************************************************)
C1_UniqueKey ==
    Built =>
        \A i, j \in 1..Len(data) :
            ( /\ data[i].Area = data[j].Area
              /\ data[i].Continent = data[j].Continent
              /\ data[i].ISO3 = data[j].ISO3
              /\ data[i].Year = data[j].Year ) => i = j

\* two raw rows of one area and year were collapsed into one canonical row
C1_Witness == Built /\ RawDuplicate /\ Len(data) = 1

(***************************************************************************)
(* C2: each of Import, Export, Production and Consumption of a canonical   *)
(* row is the sum of that raw column over all raw rows that survive with   *)
(* the row's key; duplicates are summed (10 and 5 give 15).                *)
(***************************************************************************)
C2_MetricsAreSums ==
    Built =>
        \A r \in 1..Len(data) :
            LET k == <<data[r].Area, data[r].Continent, data[r].ISO3, data[r].Year>>
            IN  /\ data[r].Import = RawSum(k, "Import")
                /\ data[r].Export = RawSum(k, "Export ")
                /\ data[r].Production = RawSum(k, "Production")
                /\ data[r].Consumption = RawSum(k, "Consumption")

\* raw rows with Import 10 and Import 5 became one row with Import 15
C2_Witness ==
    /\ Built
    /\ \E i, j \in 1..Len(raw) :
          /\ raw[i].Area = raw[j].Area /\ raw[i].Year = raw[j].Year
          /\ raw[i].Import = 10 /\ raw[j].Import = 5
    /\ Len(data) = 1
    /\ data[1].Import = 15

(***************************************************************************)
(* C3: every row of the canonical table has one of the five continent      *)
(* names as its Continent, never a missing one, and a raw row whose code   *)
(* the converter does not resolve is absent from the canonical table.      *)
(***************************************************************************)
C3_ContinentResolved ==
    Built =>
        /\ \A r \in 1..Len(data) : data[r].Continent \in Continents
        /\ \A i \in 1..Len(raw) :
              RawContinent(i) = "not found" =>
                  \A r \in 1..Len(data) :
                      ~(data[r].Area = RawArea(i) /\ data[r].Year = raw[i].Year)

\* an unresolved raw row was dropped while another raw row was kept
C3_Witness ==
    /\ Built
    /\ \E i \in 1..Len(raw) : RawContinent(i) = "not found"
    /\ Len(data) = 1

(***************************************************************************)
(* C4: the Self-Sufficiency Ratio of a canonical row is the undefined      *)
(* value (NaN) exactly when Consumption = 0, also when Production is not   *)
(* zero, and Production / Consumption otherwise.                           *)
(***************************************************************************)
C4_RatioUndefinedIffZeroConsumption ==
    Built =>
        \A r \in 1..Len(data) :
            /\ IsNaN(data[r].SelfSufficiencyRatio) <=> data[r].Consumption = 0
            /\ data[r].Consumption # 0 =>
                  /\ data[r].SelfSufficiencyRatio.k = "fin"
                  /\ data[r].SelfSufficiencyRatio.n * data[r].Consumption
                        = data[r].Production * data[r].SelfSufficiencyRatio.d

(***************************************************************************)
(* C5: Net Trade of a canonical row is Export - Import of the aggregated   *)
(* row, that is of the sums over its raw rows, and may be negative.        *)
(***************************************************************************)
C5_NetTrade ==
    Built =>
        \A r \in 1..Len(data) :
            LET k == <<data[r].Area, data[r].Continent, data[r].ISO3, data[r].Year>>
            IN  /\ data[r].NetTrade = data[r].Export - data[r].Import
                /\ data[r].NetTrade =
                      RawSum(k, "Export ")
                          - RawSum(k, "Import")

\* a row aggregated from two raw rows has a negative Net Trade
C5_Witness ==
    /\ Built
    /\ RawDuplicate
    /\ \E r \in 1..Len(data) : data[r].Import = 15 /\ data[r].NetTrade < 0

(***************************************************************************)
(* What the canonical table says about a query result.                     *)
(***************************************************************************)
\* standard competition rank of row i of data for metric m: one more than
\* the number of rows of the same year with a strictly greater value
CompetitionRank(i, m) ==
    IF IsNaN(FCol(data[i], m)) THEN NoRank
    ELSE 1 + Cardinality({j \in 1..Len(data) :
                 /\ data[j].Year = data[i].Year
                 /\ FLt(FCol(data[i], m), FCol(data[j], m))})

\* the row of data with a given area and year
RowAt(area, year) ==
    CHOOSE i \in 1..Len(data) : data[i].Area = area /\ data[i].Year = year

\* the last invocation exported the world-rank table
RankExported ==
    /\ Built
    /\ out.fn = "country_level_plots"
    /\ out.download.filename = "world_rank_data.csv"

\* the ranks the exported table gives the ranked rows of a year for a metric
RankSet(year, m) ==
    {out.download.content[i].Rank[m] :
        i \in {j \in 1..Len(out.download.content) :
                  /\ out.download.content[j].Year = year
                  /\ out.download.content[j].Rank[m] # NoRank}}

\* the number of rows of a year the exported table gives the rank r
RankCount(year, m, r) ==
    Cardinality({j \in 1..Len(out.download.content) :
                    /\ out.download.content[j].Year = year
                    /\ out.download.content[j].Rank[m] = r})

\* the rows of data in a scope and year
ScopeRows(year, scope) ==
    {i \in 1..Len(data) :
        /\ data[i].Year = year
        /\ scope # "the Whole World" => data[i].Continent = scope}

\* the sum of a metric over a set of rows of data
RECURSIVE SumRows(_, _)
SumRows(S, m) ==
    IF S = {} THEN 0
    ELSE LET i == CHOOSE x \in S : TRUE
         IN  Col(data[i], m) + SumRows(S \ {i}, m)

\* the last invocation is a top-5 request
Top5Asked == Built /\ out.fn = "top5_plot_and_table"

(***************************************************************************)
(* C6: World rank is standard competition ranking per year: the rank of a  *)
(* row with a defined metric is 1 + the number of rows of its year with a  *)
(* strictly greater value, in the exported world-rank table (all six       *)
(* metrics) and in the world-rank chart; rows of other years do not count. *)
(***************************************************************************)
C6_CompetitionRankPerYear ==
    (Built /\ out.fn = "country_level_plots") =>
        /\ out.download.filename = "world_rank_data.csv" =>
              /\ Len(out.download.content) = Len(data)
              /\ \A i \in 1..Len(data) :
                    /\ out.download.content[i].Area = data[i].Area
                    /\ out.download.content[i].Year = data[i].Year
                    /\ \A m \in Range(metrics) :
                          out.download.content[i].Rank[m] = CompetitionRank(i, m)
        /\ \A p \in 1..Len(out.country_world_rank) :
              out.country_world_rank[p].world_rank =
                  CompetitionRank(RowAt(out.country_world_rank[p].Area,
                                        out.country_world_rank[p].Year),
                                  out.plotted)

\* the exported table ranks two tied rows of 2001 first and the third row
\* third, while 2000 has a row ranked first of its own
C6_Witness ==
    /\ RankExported
    /\ \E i, j, l, h \in 1..Len(data) :
          /\ i # j
          /\ data[i].Year = 2001 /\ data[j].Year = 2001 /\ data[l].Year = 2001
          /\ data[h].Year = 2000
          /\ data[i].Import = data[j].Import
          /\ data[h].Import > data[i].Import
          /\ out.download.content[i].Rank["Import"] = 1
          /\ out.download.content[j].Rank["Import"] = 1
          /\ out.download.content[l].Rank["Import"] = 3
          /\ out.download.content[h].Rank["Import"] = 1

(***************************************************************************)
(* C7 as claimed: for every year and metric the set of ranks of the        *)
(* exported world-rank table is {1, ..., k} for some k, ties included.     *)
(***************************************************************************)
C7_RanksArePrefix ==
    RankExported =>
        \A year \in {2000, 2001} : \A m \in Range(metrics) :
            RankSet(year, m) = 1..Cardinality(RankSet(year, m))

(***************************************************************************)
(* C7 as amended: for every year and metric the ranks of the n ranked rows *)
(* lie in 1..n and include 1; they are exactly {1, ..., n} when no two     *)
(* rows tie, and a rank p of 1..n is missing only where rows that tie on a *)
(* smaller rank r take its place (r < p < r + number of rows ranked r).    *)
(***************************************************************************)
C7_RanksSkipAfterTies ==
    RankExported =>
        \A year \in {2000, 2001} : \A m \in Range(metrics) :
            LET R == RankSet(year, m)
                n == Cardinality({j \in 1..Len(data) :
                         data[j].Year = year /\ ~IsNaN(FCol(data[j], m))})
            IN  /\ R \subseteq 1..n
                /\ n > 0 => 1 \in R
                /\ (\A r \in R : RankCount(year, m, r) = 1) => R = 1..n
                /\ \A p \in (1..n) \ R :
                      \E r \in R : r < p /\ p < r + RankCount(year, m, r)

\* the ranks of 2001 by Import are {1, 3} (two rows tie), the ranks of
\* 2001 by Export are {1, 2, 3}
C7_Witness ==
    /\ RankExported
    /\ RankSet(2001, "Import") = {1, 3}
    /\ RankSet(2001, "Export") = {1, 2, 3}

(***************************************************************************)
(* C8: for a scope and year with at least 5 rows the top-5 request returns *)
(* 5 distinct rows of the scope, largest value first, no row left out      *)
(* having a larger value than a returned one, and each market share is     *)
(* value / scopeTotal * 100 (to two decimals) with scopeTotal the sum over *)
(* all rows of the scope.                                                  *)
(***************************************************************************)
C8_Top5AndMarketShare ==
    (Top5Asked /\ Cardinality(ScopeRows(out.year, out.scope)) >= 5) =>
        LET S == ScopeRows(out.year, out.scope)
            total == SumRows(S, out.metric)
            V(p) == Col(data[RowAt(out.names[p], out.year)], out.metric)
        IN  /\ out.raised = "none"
            /\ Len(out.names) = 5 /\ Len(out.shares) = 5
            /\ \A p, q \in 1..5 : out.names[p] = out.names[q] => p = q
            /\ \A p \in 1..5 : \E i \in S : data[i].Area = out.names[p]
            /\ \A p \in 1..4 : V(p) >= V(p + 1)
            /\ \A i \in S :
                  (\A p \in 1..5 : data[i].Area # out.names[p]) =>
                      Col(data[i], out.metric) <= V(5)
            /\ total > 0 =>
                  \A p \in 1..5 :
                      /\ out.shares[p].k = "fin"
                      /\ 2 * Abs(out.shares[p].hundredths * total - 10000 * V(p))
                            <= total

\* six rows with Production 65, 50, ..., 10 in the world scope: the five
\* returned sum to less than the scope total 215, and 65 / 215 is 30.23 %
C8_Witness ==
    /\ Top5Asked
    /\ out.scope = "the Whole World" /\ out.year = 2000
    /\ out.metric = "Production"
    /\ out.raised = "none"
    /\ SumRows(ScopeRows(2000, "the Whole World"), "Production") = 215
    /\ out.names[1] = "Sudan"
    /\ out.shares[1] = [k |-> "fin", hundredths |-> 3023]

(***************************************************************************)
(* C9: for a scope and year with fewer than 5 rows the top-5 request ends  *)
(* with an error (IndexError) and returns no entry at all: never 5 entries *)
(* with made-up rows.                                                      *)
(***************************************************************************)
C9_FewerThanFiveRows ==
    (Top5Asked /\ Cardinality(ScopeRows(out.year, out.scope)) < 5) =>
        /\ out.raised = "IndexError"
        /\ out.names = <<>>
        /\ out.shares = <<>>
        /\ out.bars = {}

\* a request for 2001, which has three rows, ended with the error
C9_Witness ==
    /\ Top5Asked
    /\ Cardinality(ScopeRows(out.year, out.scope)) = 3
    /\ out.raised = "IndexError"

(***************************************************************************)
(* C10: once built, the canonical table is the table the pipeline made of  *)
(* the raw file, after any sequence of callbacks with any inputs, also     *)
(* after one that ended with an error.                                     *)
(***************************************************************************)
C10_DataUnchanged ==
    Built =>
        data = Derive(GroupByAgg(SelectRename(FilterContinent(
                   ConvertContinent(
                       Merge(ShortenArea(FixSudanCode(CleanData(raw))),
                             ref_table),
                       cc)))))

\* country_level_plots has added the rank columns to its copy and exported it
C10_Witness ==
    /\ RankExported
    /\ Len(data) > 0
    /\ \A i \in 1..Len(data) : DOMAIN data[i] =
          {"Area", "Continent", "ISO3", "Year", "Import", "Export",
           "Production", "Consumption", "NetTrade", "SelfSufficiencyRatio"}

(***************************************************************************)
(* What a callback returns when it runs alone on the canonical table.      *)
(***************************************************************************)
\* the table the pipeline makes of the raw file
CanonicalTable ==
    Derive(GroupByAgg(SelectRename(FilterContinent(
        ConvertContinent(
            Merge(ShortenArea(FixSudanCode(CleanData(raw))), ref_table),
            cc)))))

\* the results the callback fn can return for the arguments a when no other
\* invocation runs (the top-5 request may order ties either way)
AloneResults(fn, a) ==
    CASE fn = "global_overview_plots" ->
             {GlobalOverview(CanonicalTable, a.metric, a.year, a.triggered_id,
                             a.n_clicks)}
      [] fn = "continent_analysis_plots" ->
             {ContinentAnalysis(CanonicalTable, a.metric, a.triggered_id,
                                a.n_clicks)}
      [] fn = "continent_analysis_plots2" ->
             {ContinentAnalysis2(CanonicalTable, a.metric, a.hover)}
      [] fn = "country_level_plots" ->
             {CountryLevel(CanonicalTable, a.countries, a.metric,
                           a.start_year, a.end_year, a.triggered_id,
                           a.n_clicks)}
      [] fn = "top5_plot_and_table" ->
             {Top5Result(p, MarketTotal(CanonicalTable, a.metric, a.year,
                                        a.scope),
                         a.metric, a.year, a.scope) :
                 p \in PlotFrames(CanonicalTable, a.metric, a.year, a.scope)}

(***************************************************************************)
(* C11: with the callbacks on threads and their statements interleaved in  *)
(* any order, every invocation returns a result it can return when it runs *)
(* alone on the canonical table, and the module-level table never holds a  *)
(* write of a callback (the rank columns go to the per-call copies).       *)
(***************************************************************************)
C11_ConcurrentCallsAsAlone ==
    Built =>
        /\ data = CanonicalTable
        /\ \A t \in Threads :
              calls[t].step = "done" =>
                  calls[t].res \in AloneResults(calls[t].fn, calls[t].a)

\* a download of the whole table has returned on one thread after reading
\* the table while the other thread was inside its rank loop, and that
\* thread has assigned rank columns to its copy
C11_Witness ==
    /\ Built
    /\ \E t, u \in Threads :
          /\ t # u
          /\ calls[t].step = "done"
          /\ calls[t].fn = "global_overview_plots"
          /\ calls[t].overlap
          /\ calls[t].res.download.filename = "map_data.csv"
          /\ calls[u].fn = "country_level_plots"
          /\ calls[u].step = "rank"
          /\ calls[u].j = 4
          /\ calls[u].world_rank_data # data

(***************************************************************************)
(* C12: every trade row whose Area is "Sudan" carries the code 736 from    *)
(* the statement before the join onwards, whatever its raw code: the join  *)
(* gives it the reference entry of 736 and the classifier the continent of *)
(* 736.                                                                    *)
(***************************************************************************)
C12_SudanCodeOverridden ==
    /\ pc \in {"shorten", "merge", "convert", "filter"} =>
          \A i \in 1..Len(data) : data[i].Area = "Sudan" => data[i].M49 = 736
    /\ pc \in {"convert", "filter"} =>
          \A i \in 1..Len(data) :
              data[i].Area = "Sudan" =>
                  \E j \in 1..Len(ref_table) :
                      /\ ref_table[j].NumericCode = 736
                      /\ data[i].Alpha3 = ref_table[j].Alpha3
    /\ pc = "filter" =>
          \A i \in 1..Len(data) :
              data[i].Area = "Sudan" =>
                  data[i].Continent =
                      IF cc[736] = "not found" THEN NA ELSE cc[736]
    /\ Built =>
          \A i \in 1..Len(raw) :
              (raw[i].Area = "Sudan" /\ cc[736] # "not found") =>
                  \E r \in 1..Len(data) :
                      /\ data[r].Area = "Sudan" /\ data[r].Year = raw[i].Year
                      /\ data[r].ISO3 = "SDN" /\ data[r].Continent = cc[736]

\* a Sudan row with the raw code 999, which the converter places in
\* Oceania, and one with the raw code 729 are both joined and classified
\* as 736: SDN, Africa
C12_Witness ==
    /\ pc = "filter"
    /\ Len(data) = 2
    /\ CleanStr(raw[1].M49) = <<"7", "2", "9">>
    /\ CleanStr(raw[2].M49) = <<"9", "9", "9">>
    /\ cc[999] = "Oceania"
    /\ \A i \in 1..2 :
          /\ data[i].Area = "Sudan" /\ data[i].M49 = 736
          /\ data[i].Alpha3 = "SDN" /\ data[i].Continent = "Africa"

(***************************************************************************)
(* C13: when no two entries of the reference table share a numeric code,   *)
(* the frame the join returns has one row per trade record, in the order   *)
(* of the trade records and with their values; the row of a record whose   *)
(* code has a reference entry carries that entry's alpha-3 code, the row   *)
(* of a record whose code has none carries a missing alpha-3 code.         *)
(***************************************************************************)
C13_LeftJoinOneRowPerRecord ==
    (/\ pc = "convert"
     /\ \A j, l \in 1..Len(ref_table) :
           ref_table[j].NumericCode = ref_table[l].NumericCode => j = l) =>
        /\ Len(data) = Len(raw)
        /\ \A i \in 1..Len(raw) :
              /\ data[i].Area = RawArea(i)
              /\ data[i].M49 = RawCode(i)
              /\ data[i].Year = raw[i].Year
              /\ \A col \in {"Import", "Export ", "Production", "Consumption"} :
                    Col(data[i], col) = Col(raw[i], col)
              /\ \A j \in 1..Len(ref_table) :
                    ref_table[j].NumericCode = RawCode(i) =>
                        data[i].Alpha3 = ref_table[j].Alpha3
              /\ (\A j \in 1..Len(ref_table) :
                     ref_table[j].NumericCode # RawCode(i)) =>
                        data[i].Alpha3 = NA

\* two trade records, one of Nepal (524, listed once) and one of Atlantis
\* (999, not listed), are joined into two rows: NPL and a missing code
C13_Witness ==
    /\ pc = "convert"
    /\ Len(ref_table) = Len(RefRows)
    /\ Len(raw) = 2 /\ Len(data) = 2
    /\ data[1].Area = "Nepal" /\ data[1].Alpha3 = "NPL"
    /\ data[2].Area = "Atlantis" /\ data[2].Alpha3 = NA

\* the trade record i has no entry in the reference table (a join miss)
JoinMiss(i) ==
    \A j \in 1..Len(ref_table) : ref_table[j].NumericCode # RawCode(i)

(***************************************************************************)
(* C14 as claimed: the table that leaves the continent filter holds no row *)
(* with a missing country identifier, whatever the classifier returns.     *)
(***************************************************************************)
C14_JoinMissRemovedByFilter ==
    pc = "group" => \A r \in 1..Len(data) : data[r].ISO3 # NA

(***************************************************************************)
(* C14 as amended: a row with a missing country identifier leaves the      *)
(* continent filter exactly when the classifier resolves its numeric code  *)
(* to a continent; the aggregation then drops it, so the canonical table   *)
(* holds no row with a missing identifier and no row of a trade record     *)
(* without a reference entry.                                              *)
(***************************************************************************)
C14_JoinMissRemovedByAggregation ==
    /\ pc = "group" =>
          /\ \A r \in 1..Len(data) :
                data[r].ISO3 = NA => data[r].Continent \in Continents
          /\ \A i \in 1..Len(raw) :
                (JoinMiss(i) /\ RawContinent(i) # "not found") =>
                    \E r \in 1..Len(data) :
                        /\ data[r].Area = RawArea(i) /\ data[r].ISO3 = NA
                        /\ data[r].Continent = RawContinent(i)
    /\ pc \in {"derive", "serve"} =>
          /\ \A r \in 1..Len(data) : data[r].ISO3 # NA
          /\ \A i \in 1..Len(raw) :
                JoinMiss(i) =>
                    \A r \in 1..Len(data) : data[r].Area # RawArea(i)

\* Atlantis (999) has no reference entry and the converter places 999 in
\* Oceania: its row passed the filter, and the aggregation kept Nepal only
C14_Witness ==
    /\ pc = "derive"
    /\ Len(raw) = 2
    /\ raw[1].Area = "Nepal" /\ raw[2].Area = "Atlantis"
    /\ JoinMiss(2) /\ RawContinent(2) = "Oceania"
    /\ Len(data) = 1 /\ data[1].Area = "Nepal"

\* the columns of the canonical table the aggregation step reads and writes
AggregatedColumns(d) ==
    [i \in 1..Len(d) |->
        [Area |-> d[i].Area, Continent |-> d[i].Continent, ISO3 |-> d[i].ISO3,
         Year |-> d[i].Year, Import |-> d[i].Import, Export |-> d[i].Export,
         Production |-> d[i].Production, Consumption |-> d[i].Consumption]]

(***************************************************************************)
(* C15: the group-by-and-sum step applied to its own output returns that   *)
(* output: the same rows in the same order with the same Import, Export,   *)
(* Production and Consumption (on the aggregated frame, and on the         *)
(* canonical table, whose derived columns the step does not read).         *)
(***************************************************************************)
C15_AggregationIdempotent ==
    /\ pc = "derive" => GroupByAgg(data) = data
    /\ Built => GroupByAgg(data) = AggregatedColumns(data)

\* the aggregated frame holds one row summed from two raw rows (Import 15
\* of 10 and 5, Export 9 of 2 and 7), and aggregating it again returns it
C15_Witness ==
    /\ pc = "derive"
    /\ Len(raw) = 2 /\ Len(data) = 1
    /\ data[1].Import = 15 /\ data[1].Export = 9
    /\ GroupByAgg(data)[1].Import = 15

\* the last invocation exported the continental aggregate table
ContinentalExported ==
    /\ Built
    /\ out.fn = "continent_analysis_plots"
    /\ out.download.filename = "continental_data.csv"

\* the sum of a column of a frame over its rows of one continent
ContinentSum(d, c, col) ==
    SumSeq([i \in 1..Len(d) |->
               IF d[i].Continent = c THEN Col(d[i], col) ELSE 0])

(***************************************************************************)
(* C16: the exported continental aggregate table has one row per           *)
(* (Continent, Year) of the canonical table, and for every continent and   *)
(* each of Import, Export, Production and Consumption its sum over the     *)
(* years of the continent is the sum of the canonical table over the rows  *)
(* of the continent.                                                       *)
(***************************************************************************)
C16_ContinentalRoundTrip ==
    ContinentalExported =>
        LET df == out.download.content
        IN  /\ \A g, h \in 1..Len(df) :
                  (df[g].Continent = df[h].Continent /\ df[g].Year = df[h].Year)
                      => g = h
            /\ \A i \in 1..Len(data) : \E g \in 1..Len(df) :
                  df[g].Continent = data[i].Continent /\ df[g].Year = data[i].Year
            /\ \A c \in Continents : \A m \in Range(RawMetrics) :
                  ContinentSum(df, c, m) = ContinentSum(data, c, m)

\* Asia reports in two years (Import 150 of five areas in 2000, 5 of three
\* areas in 2001) and Africa in one: three rows, and Asia sums to 155
C16_Witness ==
    /\ ContinentalExported
    /\ Len(out.download.content) = 3
    /\ Len(data) = 9
    /\ out.download.content[2].Continent = "Asia"
    /\ out.download.content[2].Import = 150
    /\ out.download.content[3].Import = 5
    /\ ContinentSum(data, "Asia", "Import") = 155

(***************************************************************************)
(* C18: when the scope of a top-5 request holds no row for the year, or    *)
(* the metric sums to zero over the scope, the request returns without an  *)
(* exception and every market share it returns is an undefined value (no   *)
(* number, so never zero).                                                 *)
(***************************************************************************)
C18_UndefinedShareNotRaised ==
    (/\ Top5Asked
     /\ \/ ScopeRows(out.year, out.scope) = {}
        \/ SumRows(ScopeRows(out.year, out.scope), out.metric) = 0) =>
        /\ out.raised = "none"
        /\ Len(out.shares) = 5
        /\ \A p \in 1..Len(out.shares) : out.shares[p].k # "fin"

\* the outcomes (what is raised) of the top-5 requests for a metric over
\* the years the table holds and the scopes of the picker with fewer than
\* five rows: the legitimate missing-data cases
TooFewRowsOutcomes(metric) ==
    UNION {{Top5Result(p, MarketTotal(data, metric, y, sc), metric, y, sc).raised :
               p \in PlotFrames(data, metric, y, sc)} :
           <<y, sc>> \in {ys \in {data[i].Year : i \in 1..Len(data)} \X Scopes :
                            Cardinality(ScopeRows(ys[1], ys[2])) < 5}}

(***************************************************************************)
(* C19: a request for a year the canonical table does not hold ends with   *)
(* an error, and with another outcome than a request for a year and scope  *)
(* that merely have too few rows: the top-5 request raises something else  *)
(* than those do, and the year slice of the global overview does not       *)
(* return normally.                                                        *)
(***************************************************************************)
C19_AbsentYearFailsDistinctly ==
    (Built /\ out.fn \in {"top5_plot_and_table", "global_overview_plots"}
           /\ \A i \in 1..Len(data) : data[i].Year # out.year) =>
        /\ out.raised # "none"
        /\ out.fn = "top5_plot_and_table" =>
              out.raised \notin TooFewRowsOutcomes(out.metric)

\* the numeric code of the trade record i is no integer once the quotes and
\* the blanks are stripped
Uncoercible(i) == ~IsIntLiteral(CleanStr(raw[i].M49))

(***************************************************************************)
(* C20: a raw numeric code that is no integer after stripping quotes and   *)
(* blanks raises nothing: the script never stops at the cleaning, and the  *)
(* canonical table it builds holds the rows of the other trade records     *)
(* (those the reference table and the converter resolve) and none of the   *)
(* offending record.                                                       *)
(***************************************************************************)
C20_UncoercibleCodeBecomesMissing ==
    /\ pc # "raised"
    /\ Built =>
          \A i \in 1..Len(raw) :
              IF Uncoercible(i)
              THEN \A r \in 1..Len(data) : data[r].Area # raw[i].Area
              ELSE (~JoinMiss(i) /\ RawContinent(i) # "not found") =>
                       \E r \in 1..Len(data) :
                           /\ data[r].Area = RawArea(i)
                           /\ data[r].Year = raw[i].Year

(***************************************************************************)
(* C21: no two rows of the exported world-rank table share Area and Year,  *)
(* every (Area, Year) of the raw file that the pipeline resolves has its   *)
(* row, and every row carries a rank column for each of the six metrics    *)
(* and no other.                                                           *)
(***************************************************************************)
C21_WorldRankTableShape ==
    RankExported =>
        LET w == out.download.content
        IN  /\ \A i, j \in 1..Len(w) :
                  (w[i].Area = w[j].Area /\ w[i].Year = w[j].Year) => i = j
            /\ \A i \in 1..Len(raw) : \E r \in 1..Len(w) :
                  w[r].Area = raw[i].Area /\ w[r].Year = raw[i].Year
            /\ \A r \in 1..Len(w) :
                  /\ DOMAIN w[r] = {"Area", "Year", "Rank"}
                  /\ DOMAIN w[r].Rank =
                         {"Import", "Export", "Production", "Consumption",
                          "Net Trade", "Self-Sufficiency Ratio"}

\* the raw file holds two rows of China for 2001, and the exported table
\* one, beside the row of China for 2000
C21_Witness ==
    /\ RankExported
    /\ Cardinality({i \in 1..Len(raw) :
                       raw[i].Area = "China" /\ raw[i].Year = 2001}) = 2
    /\ Cardinality({r \in 1..Len(out.download.content) :
                       out.download.content[r].Area = "China"}) = 2
    /\ Len(out.download.content) < Len(raw)

\* the orders the elements of a set can be listed in
RECURSIVE Orders(_)
Orders(S) ==
    IF S = {} THEN {<<>>}
    ELSE UNION {{<<x>> \o o : o \in Orders(S \ {x})} : x \in S}

\* the four metrics of a row are all zero
AllZero(row) ==
    /\ row.Import = 0 /\ row.Export = 0
    /\ row.Production = 0 /\ row.Consumption = 0

(***************************************************************************)
(* C22: whatever the order of the rows that enter the aggregation, the     *)
(* aggregated rows (key and the four sums) are the same; and a trade       *)
(* record the pipeline resolves has its group in the canonical table also  *)
(* when the four sums of the group are zero.                               *)
(***************************************************************************)
C22_AggregationOrderIndependent ==
    /\ pc = "group" =>
          \A o \in Orders(1..Len(data)) :
              Range(GroupByAgg([i \in 1..Len(data) |-> data[o[i]]]))
                  = Range(GroupByAgg(data))
    /\ Built =>
          \A i \in 1..Len(raw) :
              (~JoinMiss(i) /\ RawContinent(i) # "not found") =>
                  \E r \in 1..Len(data) :
                      /\ data[r].Area = RawArea(i)
                      /\ data[r].Year = raw[i].Year

\* a row of Nepal for 2000 and an all-zero row of Nepal for 2001 enter the
\* aggregation: listed the other way round they give the same two groups,
\* the zero group included
C22_Witness ==
    /\ pc = "group"
    /\ Len(data) = 2
    /\ data[1].Area = "Nepal" /\ data[1].Year = 2000 /\ data[1].Import = 10
    /\ data[2].Area = "Nepal" /\ data[2].Year = 2001
    /\ data[2].Import = 0 /\ data[2].Export = 0
    /\ data[2].Production = 0 /\ data[2].Consumption = 0
    /\ LET g == GroupByAgg(<<data[2], data[1]>>)
       IN  /\ Len(g) = 2
           /\ g[1].Year = 2000 /\ g[1].Import = 10
           /\ g[2].Year = 2001 /\ AllZero(g[2])

(***************************************************************************)
(* C23: when country_level_plots is invoked with countries and             *)
(* start_year < end_year, the time series it returns plots the column of   *)
(* the metric it was invoked with (the metric of the returned title), and  *)
(* the world-rank series ranks the rows by that column.                    *)
(***************************************************************************)
C23_PlotsTheSelectedMetric ==
    (Built /\ out.fn = "country_level_plots" /\ ~out.empty) =>
        /\ out.title = out.metric
        /\ out.plotted = out.metric
        /\ \A p \in 1..Len(out.country_time_series) :
              LET row == data[RowAt(out.country_time_series[p].Area,
                                    out.country_time_series[p].Year)]
              IN  out.country_time_series[p].y = FCol(row, out.metric)
        /\ \A p \in 1..Len(out.country_world_rank) :
              out.country_world_rank[p].world_rank =
                  CompetitionRank(RowAt(out.country_world_rank[p].Area,
                                        out.country_world_rank[p].Year),
                                  out.metric)

\* the last invocation is one of a callback with a download output
DownloadAsked ==
    /\ Built
    /\ out.fn \in {"global_overview_plots", "continent_analysis_plots",
                   "country_level_plots"}

\* the download button and the file of a callback
ButtonOf(fn) ==
    CASE fn = "global_overview_plots" -> "btn-download1"
      [] fn = "continent_analysis_plots" -> "btn-download2"
      [] fn = "country_level_plots" -> "btn-download3"

FileOf(fn) ==
    CASE fn = "global_overview_plots" -> "map_data.csv"
      [] fn = "continent_analysis_plots" -> "continental_data.csv"
      [] fn = "country_level_plots" -> "world_rank_data.csv"

(***************************************************************************)
(* C24: the download output of a callback carries its file (map_data.csv,  *)
(* continental_data.csv, world_rank_data.csv) exactly in the invocations   *)
(* the tab's download button triggered; an invocation any other input      *)
(* triggered returns no_update, also when the button was clicked before.   *)
(***************************************************************************)
C24_DownloadOnlyOnButtonTrigger ==
    DownloadAsked =>
        IF out.triggered_id = ButtonOf(out.fn)
        THEN out.download.filename = FileOf(out.fn)
        ELSE out.download = no_update

\* the end-year input triggers country_level_plots after the download
\* button was clicked: no file
C24_Witness ==
    /\ DownloadAsked
    /\ out.fn = "country_level_plots"
    /\ out.triggered_id = "end-year"
    /\ out.n_clicks # NoClicks
    /\ out.download = no_update

\* the (Area, Year) pairs of a returned series
SeriesKeys(series) ==
    {<<series[p].Area, series[p].Year>> : p \in 1..Len(series)}

\* the (Area, Year) pairs of the canonical rows of the given countries in
\* the inclusive range of years
SelectedKeys(names, start_year, end_year) ==
    {<<data[i].Area, data[i].Year>> :
        i \in {j \in 1..Len(data) :
                  /\ data[j].Area \in names
                  /\ start_year <= data[j].Year
                  /\ data[j].Year <= end_year}}

(***************************************************************************)
(* C25: country_level_plots returns two empty figures when countries,      *)
(* start_year or end_year is None or end_year <= start_year; the warning   *)
(* is non-empty exactly when all three are given and end_year <=           *)
(* start_year; otherwise both figures plot exactly the canonical rows      *)
(* whose Area is in countries and whose Year is in start_year..end_year,   *)
(* each once.                                                              *)
(***************************************************************************)
C25_GuardsAndPlottedRows ==
    (Built /\ out.fn = "country_level_plots") =>
        LET missing == \/ ~out.countries.given
                       \/ out.start_year = NoYear
                       \/ out.end_year = NoYear
            backwards == ~missing /\ out.end_year <= out.start_year
            keys == SelectedKeys(out.countries.names, out.start_year,
                                 out.end_year)
        IN  /\ (missing \/ backwards) =>
                  /\ out.empty
                  /\ out.country_time_series = <<>>
                  /\ out.country_world_rank = <<>>
            /\ (out.warning # "") <=> backwards
            /\ ~(missing \/ backwards) =>
                  /\ ~out.empty
                  /\ SeriesKeys(out.country_time_series) = keys
                  /\ SeriesKeys(out.country_world_rank) = keys
                  /\ Len(out.country_time_series) = Cardinality(keys)
                  /\ Len(out.country_world_rank) = Cardinality(keys)

\* countries and 2000..2001 are given: rows of the end year 2001 are
\* plotted, and a row of a country that was not asked for is not
C25_Witness ==
    /\ Built
    /\ out.fn = "country_level_plots"
    /\ out.countries.given
    /\ out.start_year = 2000 /\ out.end_year = 2001
    /\ ~out.empty
    /\ <<"China", 2001>> \in SeriesKeys(out.country_time_series)
    /\ <<"Sudan", 2000>> \in SeriesKeys(out.country_time_series)
    /\ \E i \in 1..Len(data) :
          /\ data[i].Year = 2000
          /\ data[i].Area \notin out.countries.names

\* the sum of the returned shares, in hundredths of a percent
RECURSIVE ShareSum(_)
ShareSum(shares) ==
    IF shares = <<>> THEN 0
    ELSE Head(shares).hundredths + ShareSum(Tail(shares))

\* a whole-world top-5 of a raw metric was answered, and the values of the
\* scope are non-negative with a positive total
WorldTop5Answered ==
    /\ Top5Asked
    /\ out.raised = "none"
    /\ out.scope = "the Whole World"
    /\ out.metric \in Range(RawMetrics)

NonNegativePositiveTotal ==
    /\ \A i \in ScopeRows(out.year, out.scope) : Col(data[i], out.metric) >= 0
    /\ SumRows(ScopeRows(out.year, out.scope), out.metric) > 0

\* the row at position p of the top-5 has world rank at most p, and the
\* first one has rank 1
Top5RanksBounded ==
    /\ \A p \in 1..5 :
          LET r == CompetitionRank(RowAt(out.names[p], out.year), out.metric)
          IN  r # NoRank /\ r <= p
    /\ CompetitionRank(RowAt(out.names[1], out.year), out.metric) = 1

(***************************************************************************)
(* C26 as stated: for a raw metric and a year with at least 5 rows, the    *)
(* row at position i of the whole-world top-5 has world rank at most i,    *)
(* the first row has world rank 1, and with non-negative values and a      *)
(* positive scope total the five returned market shares sum to at most     *)
(* 100.                                                                    *)
(***************************************************************************)
C26_Top5SharesAtMost100 ==
    WorldTop5Answered =>
        /\ Top5RanksBounded
        /\ NonNegativePositiveTotal => ShareSum(out.shares) <= 10000

(***************************************************************************)
(* C26 amended: the ranks are bounded as stated; with non-negative values  *)
(* and a positive scope total the five values sum to at most the scope     *)
(* total (the unrounded shares sum to at most 100), and the five returned  *)
(* shares, each rounded to two decimals, sum to at most 100.02.            *)
(***************************************************************************)
C26_Top5SharesAtMost100PlusRounding ==
    WorldTop5Answered =>
        /\ Top5RanksBounded
        /\ NonNegativePositiveTotal =>
              /\ SumRows({RowAt(out.names[p], out.year) : p \in 1..5},
                         out.metric)
                     <= SumRows(ScopeRows(out.year, out.scope), out.metric)
              /\ \A p \in 1..5 : out.shares[p].k = "fin"
              /\ ShareSum(out.shares) <= 10002

\* a whole-world top-5 of Export over six rows of 2000: 75, 70 and 60 of a
\* total of 205 are returned as 36.59%, 34.15% and 29.27%, 100.01 together
C26_Witness ==
    /\ WorldTop5Answered
    /\ NonNegativePositiveTotal
    /\ out.metric = "Export" /\ out.year = 2000
    /\ Cardinality(ScopeRows(out.year, out.scope)) = 6
    /\ out.names[1] = "Sudan"
    /\ out.shares[1].hundredths = 3659
    /\ ShareSum(out.shares) = 10001

====
